---- MODULE Spec2Model ----
(***************************************************************************)
(* Model of the paperless-ngx correspondent manager: the batched document  *)
(* reassignment (bulk_reassign_documents), the merge orchestration         *)
(* (merge_correspondents, merge_correspondent_group) and the CLI commands   *)
(* merge and merge-group that drive them.                                   *)
(*                                                                         *)
(* The program is single-threaded and synchronous.  Its call stack is the  *)
(* variable `stack` (last element = running function); every action is the *)
(* code of the running function between two points where the outside world *)
(* answers (an HTTP response, a user's answer) or where a call returns.     *)
(* The service (document ownership, existing correspondents) is part of    *)
(* the state; `posts`, `merges` and `deletes` record what the program did.  *)
(***************************************************************************)
EXTENDS Integers, Sequences, FiniteSets, TLC

VARIABLES
    owner,      \* service: document id -> id of the owning correspondent, 0 = none
    owner0,     \* the ownership when the operation was invoked (history)
    corrs,      \* service: ids of the correspondents that exist
    status,     \* "idle" | "running" | "done" | "exit1" | "crashed"
    call,       \* the top-level invocation: the operation and its arguments
    stack,      \* call stack of frames, the running function last
    result,     \* what the finished operation returned (a command: its last message)
    posts,      \* bulk_edit POST requests issued so far, in issue order
    merges,     \* calls of merge_correspondents so far, in call order
    deletes,    \* DELETE requests issued so far, in issue order
    answers,    \* what the user typed at the input() prompts so far, in order
    group_merges    \* calls of merge_correspondent_group so far, in call order

vars ==
    <<owner, owner0, corrs, status, call, stack, result, posts, merges, deletes, answers,
      group_merges>>

----------------------------------------------------------------------------
(* Bounds of the model *)

MaxBulkDocs == 12     \* longest document_ids list passed directly to a reassignment
MaxBatchSize == 24    \* largest explicit batch_size argument (besides the defaults)
MaxBatches == 3       \* most top-level batches of a directly invoked reassignment
NumCorrs == 3         \* correspondents in the service, ids 1..NumCorrs
NumOwnedDocs == 2     \* documents that belong to some correspondent
PageSize == 1         \* documents per page of the documents listing
MaxGroup == 3         \* longest group passed to merge_correspondent_group
MaxCliIds == 2        \* most ids on a CLI command line
MaxNameLen == 3       \* longest name passed to calculate_similarity
MaxListing == 4       \* most correspondents in the listing given to a finder
MaxCount == 1         \* largest document_count field of a correspondent snapshot
MaxInvalidEntries == 1    \* most invalid entries at the target prompts of an auto merge

(* Program constants *)

DefaultBatchSize == 50
RestoreBatchSize == 25
RetryFloor == 10
RequestTimeout == 60

----------------------------------------------------------------------------
(* Python values *)

\* Optional[int]: None, or an int
None == <<>>
Some(x) == <<x>>

\* a correspondent dict of the API and a bare int, as list elements
PyDict(i, n) == [kind |-> "dict", id |-> i, document_count |-> n]
PyInt(i) == [kind |-> "int", value |-> i]

\* x["id"] and x.get(...) succeed on a dict; on an int the first raises TypeError,
\* the second AttributeError
Subscriptable(x) == x.kind = "dict"

Min(a, b) == IF a < b THEN a ELSE b

CorrIds == 1..NumCorrs
DocIds == 1..MaxBulkDocs

\* list(range(1, n + 1))
Ids(n) == [i \in 1..n |-> i]

\* str.lower() on the answers the user may type
Lower(s) ==
    IF s = "Y" THEN "y" ELSE IF s = "N" THEN "n" ELSE IF s = "Q" THEN "q" ELSE s

Answers == {"y", "Y", "n", ""}

\* an entry of answers: input(prompt) returned `response`; `about` is the id of the
\* correspondent, or the number of the group, the prompt asks about
Answer(prompt, about, response) ==
    [prompt |-> prompt, about |-> about, response |-> response]

----------------------------------------------------------------------------
(* The service *)

RECURSIVE OwnedFrom(_, _, _)
\* ids of the documents owned by correspondent c among d..MaxBulkDocs, ascending
OwnedFrom(own, c, d) ==
    IF d > MaxBulkDocs THEN <<>>
    ELSE IF own[d] = c THEN <<d>> \o OwnedFrom(own, c, d + 1)
    ELSE OwnedFrom(own, c, d + 1)

\* the documents listing filtered by correspondent__id__in=c
ServiceDocuments(own, c) ==
    LET ids == OwnedFrom(own, c, 1)
    IN  [k \in 1..Len(ids) |-> [id |-> ids[k], correspondent |-> c]]

RECURSIVE ExistingFrom(_, _)
\* ids of the existing correspondents among c..NumCorrs, ascending
ExistingFrom(cs, c) ==
    IF c > NumCorrs THEN <<>>
    ELSE IF c \in cs THEN <<c>> \o ExistingFrom(cs, c + 1)
    ELSE ExistingFrom(cs, c + 1)

\* the correspondents listing: every existing correspondent with its document_count
ServiceCorrespondents(own, cs) ==
    LET ids == ExistingFrom(cs, 1)
    IN  [k \in 1..Len(ids) |-> PyDict(ids[k], Some(Len(OwnedFrom(own, ids[k], 1))))]

\* bulk_edit set_correspondent applied by the service
ApplyReassign(own, docs, c) ==
    [d \in DocIds |-> IF \E k \in 1..Len(docs) : docs[k] = d THEN c ELSE own[d]]

\* DELETE of a correspondent: its documents lose their correspondent
ApplyDelete(own, c) == [d \in DocIds |-> IF own[d] = c THEN 0 ELSE own[d]]

----------------------------------------------------------------------------
(* Call stack *)

Top == stack[Len(stack)]
Running(fn, pc) == status = "running" /\ stack # <<>> /\ Top.fn = fn /\ Top.pc = pc
SetTop(f) == [stack EXCEPT ![Len(stack)] = f]

\* `return v` of frame f
Returning(f, v) == [f EXCEPT !.pc = "return", !.ret = v]

----------------------------------------------------------------------------
(* bulk_reassign_documents *)

\* document_ids[i : i + batch_size]
Batch(document_ids, i, batch_size) ==
    SubSeq(document_ids, i + 1, Min(i + batch_size, Len(document_ids)))

\* (len(document_ids) + batch_size - 1) // batch_size
TotalBatches(n, batch_size) == (n + batch_size - 1) \div batch_size

\* mutant: the floor of the retry is half of what it should be
ShouldRetry_LowFloor(batch_size) == batch_size > RetryFloor \div 2

\* the test that decides whether a timed-out batch is retried
ShouldRetry(batch_size) == batch_size > RetryFloor

\* mutant: the retry takes three quarters of the batch size
SmallerBatchSize_ThreeQuarters(batch_size) == (3 * batch_size) \div 4

\* the batch size of the retry
SmallerBatchSize(batch_size) == batch_size \div 2

\* mutant: the retry gets the whole list instead of the timed-out batch
RetryDocuments_WholeList(document_ids, batch) == document_ids

\* the documents handed to the retry of a timed-out batch
RetryDocuments(document_ids, batch) == batch

\* mutant: a failed batch leaves the success flag as it was
AfterBatch_KeepsFlag(success, ok) == success

\* the success flag after a batch that ended with `ok` (FALSE: it failed)
AfterBatch(success, ok) == IF ok THEN success ELSE FALSE

\* mutant: each step skips one document
NextIndex_Skip(i, batch_size) == i + batch_size + 1

\* range(0, len(document_ids), batch_size): the next i, and the end of the loop
NextIndex(i, batch_size) == i + batch_size
LoopDone(document_ids, i) == i >= Len(document_ids)

\* mutant: an empty list is reported as a failure
BulkFrame_EmptyFails(document_ids, target, batch_size, caller, merge) ==
    [fn |-> "bulk", document_ids |-> document_ids,
     target_correspondent_id |-> target, batch_size |-> batch_size,
     i |-> 0, success |-> TRUE, pc |-> IF document_ids = <<>> THEN "return" ELSE "loop",
     ret |-> document_ids # <<>>, caller |-> caller, merge |-> merge]

\* the frame of a call bulk_reassign_documents(document_ids, target, batch_size) after
\* its entry: an empty list returns True at once.  `caller` is the index in posts of
\* the timed-out request this call retries (0: none), `merge` the index in merges of
\* the merge_correspondents call it serves (0: none); both are history only.
BulkFrame(document_ids, target, batch_size, caller, merge) ==
    LET f == [fn |-> "bulk", document_ids |-> document_ids,
              target_correspondent_id |-> target, batch_size |-> batch_size,
              i |-> 0, success |-> TRUE, pc |-> "loop", ret |-> TRUE,
              caller |-> caller, merge |-> merge]
    IN  IF document_ids = <<>> THEN Returning(f, TRUE) ELSE f

\* mutant: a failed batch ends the loop
BulkContinue_Aborts(f, ok) ==
    LET s == AfterBatch(f.success, ok)
        i2 == NextIndex(f.i, f.batch_size)
        g == [f EXCEPT !.success = s, !.i = i2, !.pc = "loop"]
    IN  IF LoopDone(f.document_ids, i2) \/ ~ok THEN Returning(g, s) ELSE g

\* the end of one iteration of the batch loop: the batch ended with `ok`
BulkContinue(f, ok) ==
    LET s == AfterBatch(f.success, ok)
        i2 == NextIndex(f.i, f.batch_size)
        g == [f EXCEPT !.success = s, !.i = i2, !.pc = "loop"]
    IN  IF LoopDone(f.document_ids, i2) THEN Returning(g, s) ELSE g

Outcomes == {"ok", "timeout", "error"}

\* One iteration of the batch loop up to the response of its POST request.  The
\* service applies a request it answers with success; a request that times out or
\* fails is taken as not applied (the program cannot tell, and re-sends the ids).
BulkRequest ==
    /\ Running("bulk", "loop")
    /\ \E outcome \in Outcomes :
        LET f == Top
            batch == Batch(f.document_ids, f.i, f.batch_size)
            post == [documents |-> batch, method |-> "set_correspondent",
                     correspondent |-> f.target_correspondent_id,
                     timeout |-> RequestTimeout, outcome |-> outcome,
                     batch_size |-> f.batch_size, caller |-> f.caller,
                     merge |-> f.merge]
        IN  /\ posts' = Append(posts, post)
            /\ owner' = IF outcome = "ok"
                        THEN ApplyReassign(owner, batch, f.target_correspondent_id)
                        ELSE owner
            /\ stack' =
                IF outcome = "timeout" /\ ShouldRetry(f.batch_size)
                THEN Append(SetTop([f EXCEPT !.pc = "wait"]),
                            BulkFrame(RetryDocuments(f.document_ids, batch),
                                      f.target_correspondent_id,
                                      SmallerBatchSize(f.batch_size),
                                      Len(posts) + 1, f.merge))
                ELSE SetTop(BulkContinue(f, outcome = "ok"))
    /\ UNCHANGED <<owner0, corrs, status, call,
                 result, merges, deletes, answers, group_merges>>

---------------------------------------------------------------------------------------------------------------------------------------------------
(* restore_documents_to_correspondent *)

\* the frame of a call restore_documents_to_correspondent(document_ids, target)
RestoreFrame(document_ids, target) ==
    [fn |-> "restore", document_ids |-> document_ids,
     target_correspondent_id |-> target, pc |-> "start", ret |-> TRUE]

\* the whole method up to its call of bulk_reassign_documents with batch_size=25
RestoreStart ==
    /\ Running("restore", "start")
    /\ LET f == Top
       IN  stack' =
            IF f.document_ids = <<>>
            THEN SetTop(Returning(f, TRUE))
            ELSE Append(SetTop([f EXCEPT !.pc = "wait"]),
                        BulkFrame(f.document_ids, f.target_correspondent_id,
                                  RestoreBatchSize, 0, 0))
    /\ UNCHANGED <<owner, owner0, corrs, status, call,
                 result, posts, merges, deletes, answers, group_merges>>

----------------------------------------------------------------------------
(* get_correspondent_documents and merge_correspondents *)

\* pages of the documents listing: at least one request, also for an empty listing
NumPages(n) == IF n = 0 THEN 1 ELSE (n + PageSize - 1) \div PageSize

\* get_correspondent_documents when the first ok_pages page requests succeed: the
\* documents of these pages; a failing request is caught and ends the loop
FetchedDocuments(listing, ok_pages) ==
    SubSeq(listing, 1, Min(Len(listing), ok_pages * PageSize))

\* [doc["id"] for doc in documents]
DocumentIds(documents) == [k \in 1..Len(documents) |-> documents[k].id]

\* the value merge_correspondents returns when the source has no documents
NoDocumentsResult == TRUE

\* mutant: the merge passes the batch size of the restore
MergeBatchSize_Restore == RestoreBatchSize

\* the batch size merge_correspondents passes (the default of the parameter)
MergeBatchSize == DefaultBatchSize

\* the frame of a call merge_correspondents(a, b): the first positional argument is
\* source_id, the second target_id.  `idx` is the call's index in merges.
MergeFrame(a, b, idx) ==
    [fn |-> "merge", source_id |-> a, target_id |-> b, pc |-> "fetch",
     ret |-> TRUE, idx |-> idx]

\* the entry of merges for a call merge_correspondents(a, b)
MergeEntry(a, b) ==
    [source_id |-> a, target_id |-> b, fetch_failed |-> FALSE, fetched |-> <<>>,
     listing |-> <<>>, returned |-> FALSE, result |-> FALSE]

\* merge_correspondents up to its call of bulk_reassign_documents: the paginated
\* fetch of the source's documents (a request of it may fail), then the test for
\* an empty list
MergeFetch ==
    /\ Running("merge", "fetch")
    /\ LET f == Top
           listing == IF f.source_id \in corrs
                      THEN ServiceDocuments(owner, f.source_id) ELSE <<>>
       IN  \E ok_pages \in 0..NumPages(Len(listing)) :
            LET documents == FetchedDocuments(listing, ok_pages)
                document_ids == DocumentIds(documents)
                failed == ok_pages < NumPages(Len(listing))
            IN  /\ merges' = [merges EXCEPT ![f.idx].fetch_failed = failed,
                                            ![f.idx].fetched = document_ids,
                                            ![f.idx].listing = DocumentIds(listing)]
                /\ stack' =
                    IF documents = <<>>
                    THEN SetTop(Returning(f, NoDocumentsResult))
                    ELSE Append(SetTop([f EXCEPT !.pc = "wait"]),
                                BulkFrame(document_ids, f.target_id,
                                          MergeBatchSize, 0, f.idx))
    /\ UNCHANGED <<owner, owner0, corrs, status, call,
                 result, posts, deletes, answers, group_merges>>

----------------------------------------------------------------------------
(* merge_correspondent_group and delete_correspondent *)

\* the frame of a call merge_correspondent_group(group, target_id)
GroupFrame(group, target_id) ==
    [fn |-> "group", group |-> group, target_id |-> target_id, pc |-> "start",
     ret |-> TRUE, k |-> 1, success |-> TRUE, merged_sources |-> <<>>, d |-> 1]

\* the entry of group_merges for a call merge_correspondent_group(group, target_id)
GroupEntry(group, target_id) ==
    [group |-> group, target_id |-> target_id, returned |-> FALSE, result |-> FALSE]

\* group_merges after a step that leaves the call stack `after`: a call of
\* merge_correspondent_group made by the step is added
GroupCalls(after) ==
    IF Len(after) > Len(stack) /\ after[Len(after)].fn = "group"
    THEN Append(group_merges,
                GroupEntry(after[Len(after)].group, after[Len(after)].target_id))
    ELSE group_merges

\* x.get("document_count", 0)
DocumentCount(x) == IF x.document_count = None THEN 0 ELSE x.document_count[1]

RECURSIVE MaxBy_LastMax(_, _, _)
\* mutant: a later member with an equal count replaces the best so far
MaxBy_LastMax(group, k, best) ==
    IF k > Len(group) THEN best
    ELSE IF DocumentCount(group[k]) >= DocumentCount(group[best])
         THEN MaxBy_LastMax(group, k + 1, k)
         ELSE MaxBy_LastMax(group, k + 1, best)

RECURSIVE MaxBy(_, _, _)
\* max(group, key=document_count): the index of the first member with the largest
\* count among group[k..], given the best index so far
MaxBy(group, k, best) ==
    IF k > Len(group) THEN best
    ELSE IF DocumentCount(group[k]) > DocumentCount(group[best])
         THEN MaxBy(group, k + 1, k)
         ELSE MaxBy(group, k + 1, best)

\* next((c for c in group if c["id"] == target_id), None) from member k on: the index
\* of the first member with that id, 0 when there is none (None), -1 when a member
\* reached before cannot be subscripted (TypeError)
RECURSIVE FindMember_Default(_, _, _)
\* mutant: when no member has the id, the first member is taken
FindMember_Default(group, target_id, k) ==
    IF k > Len(group) THEN 1
    ELSE IF ~Subscriptable(group[k]) THEN -1
    ELSE IF group[k].id = target_id THEN k
    ELSE FindMember_Default(group, target_id, k + 1)

RECURSIVE FindMember(_, _, _)
FindMember(group, target_id, k) ==
    IF k > Len(group) THEN 0
    ELSE IF ~Subscriptable(group[k]) THEN -1
    ELSE IF group[k].id = target_id THEN k
    ELSE FindMember(group, target_id, k + 1)

AllSubscriptable(members) == \A k \in 1..Len(members) : Subscriptable(members[k])

\* an uncaught exception ends the program: main() reports it and exits with status 1
Crash(error) ==
    /\ status' = "crashed"
    /\ stack' = Append(stack, [fn |-> "raise", pc |-> "raised", error |-> error])

\* the entry of merge_correspondent_group: the size test and the choice of the target
GroupStart ==
    /\ Running("group", "start")
    /\ LET f == Top
       IN  IF Len(f.group) < 2
           THEN stack' = SetTop(Returning(f, FALSE)) /\ UNCHANGED status
           ELSE IF f.target_id = None
           THEN IF AllSubscriptable(f.group)
                THEN /\ stack' = SetTop([f EXCEPT
                            !.target_id = Some(f.group[MaxBy(f.group, 1, 1)].id),
                            !.pc = "loop"])
                     /\ UNCHANGED status
                ELSE Crash("AttributeError")
           ELSE IF FindMember(f.group, f.target_id[1], 1) = -1
           THEN Crash("TypeError")
           ELSE IF FindMember(f.group, f.target_id[1], 1) = 0
           THEN stack' = SetTop(Returning(f, FALSE)) /\ UNCHANGED status
           ELSE stack' = SetTop([f EXCEPT !.pc = "loop"]) /\ UNCHANGED status
    /\ UNCHANGED <<owner, owner0, corrs, call, result,
                 posts, merges, deletes, answers, group_merges>>

\* is the member a source, i.e. to be merged into the target
IsSource(member, target_id) == member.id # target_id[1]

\* mutant: the delete prompt is shown when some merge succeeded
AsksToDelete_SomeMerged(success, merged_sources) == merged_sources # <<>>

\* after the loop: the delete prompt is shown when all merges succeeded and there
\* was one at least
AsksToDelete(success, merged_sources) == success /\ merged_sources # <<>>

\* one iteration of the loop over the group up to its call of merge_correspondents,
\* or the code after the loop up to the delete prompt
GroupLoop ==
    /\ Running("group", "loop")
    /\ LET f == Top
       IN  IF f.k > Len(f.group)
           THEN /\ stack' = SetTop(IF AsksToDelete(f.success, f.merged_sources)
                                   THEN [f EXCEPT !.pc = "prompt"]
                                   ELSE Returning(f, f.success))
                /\ UNCHANGED <<status, merges>>
           ELSE IF ~Subscriptable(f.group[f.k])
           THEN Crash("TypeError") /\ UNCHANGED merges
           ELSE IF IsSource(f.group[f.k], f.target_id)
           THEN /\ merges' = Append(merges, MergeEntry(f.group[f.k].id, f.target_id[1]))
                /\ stack' = Append(SetTop([f EXCEPT !.pc = "wait"]),
                                   MergeFrame(f.group[f.k].id, f.target_id[1],
                                              Len(merges) + 1))
                /\ UNCHANGED status
           ELSE /\ stack' = SetTop([f EXCEPT !.k = f.k + 1])
                /\ UNCHANGED <<status, merges>>
    /\ UNCHANGED <<owner, owner0, corrs, call,
                 result, posts, deletes, answers, group_merges>>

\* mutant: the first failed merge ends the loop
GroupContinue_ShortCircuit(f, v) ==
    [f EXCEPT !.merged_sources = IF v THEN Append(@, f.group[f.k].id) ELSE @,
              !.success = IF v THEN @ ELSE FALSE,
              !.k = IF v THEN f.k + 1 ELSE Len(f.group) + 1,
              !.pc = "loop"]

\* the end of an iteration: merge_correspondents returned v for member k
GroupContinue(f, v) ==
    [f EXCEPT !.merged_sources = IF v THEN Append(@, f.group[f.k].id) ELSE @,
              !.success = IF v THEN @ ELSE FALSE,
              !.k = f.k + 1,
              !.pc = "loop"]

\* the user's answer to the delete prompt
GroupPrompt ==
    /\ Running("group", "prompt")
    /\ \E response \in Answers :
        LET f == Top
        IN  /\ answers' = Append(answers, Answer("delete_merged", f.target_id[1], response))
            /\ stack' = SetTop(IF Lower(response) = "y"
                               THEN [f EXCEPT !.pc = "delete"]
                               ELSE Returning(f, f.success))
    /\ UNCHANGED <<owner, owner0, corrs, status, call,
                 result, posts, merges, deletes, group_merges>>

\* delete_correspondent for the next merged source; its result is not used
GroupDelete ==
    /\ Running("group", "delete")
    /\ \E ok \in BOOLEAN :
        LET f == Top
            id == f.merged_sources[f.d]
            g == [f EXCEPT !.d = f.d + 1]
        IN  /\ deletes' = Append(deletes, [id |-> id, ok |-> ok,
                                           owned |-> OwnedFrom(owner, id, 1)])
            /\ owner' = IF ok /\ id \in corrs THEN ApplyDelete(owner, id) ELSE owner
            /\ corrs' = IF ok THEN corrs \ {id} ELSE corrs
            /\ stack' = SetTop(IF g.d > Len(f.merged_sources)
                               THEN Returning(g, f.success) ELSE g)
    /\ UNCHANGED <<owner0, status, call, result, posts, merges, answers, group_merges>>

----------------------------------------------------------------------------
(* CLI commands merge and merge-group *)

\* get_correspondents: ok, or a failing request, on which it calls sys.exit(1)
\* corr_dict = {c["id"]: c for c in correspondents}: its keys
CorrDictKeys(correspondents) == {correspondents[k].id : k \in 1..Len(correspondents)}

\* [cid for cid in correspondent_ids if cid not in corr_dict] and its complement
RECURSIVE FilterIds(_, _, _)
FilterIds(ids, keys, keep_known) ==
    IF ids = <<>> THEN <<>>
    ELSE IF (Head(ids) \in keys) = keep_known
         THEN <<Head(ids)>> \o FilterIds(Tail(ids), keys, keep_known)
         ELSE FilterIds(Tail(ids), keys, keep_known)

\* mutant: no id is found invalid
InvalidIds_None(ids, keys) == <<>>

InvalidIds(ids, keys) == FilterIds(ids, keys, FALSE)
ValidIds(ids, keys) == FilterIds(ids, keys, TRUE)

\* a command returns nothing: the `ret` of its frame is the message the command
\* itself ended with, empty when it printed none
NoMessage == ""

\* the frame of a CLI command
CliFrame(cmd, correspondent_ids) ==
    [fn |-> cmd, correspondent_ids |-> correspondent_ids, pc |-> "start",
     ret |-> NoMessage, k |-> 1]

\* sys.exit(1)
Exit1 == status' = "exit1" /\ UNCHANGED stack

\* target_id = correspondent_ids[0]; source_ids = correspondent_ids[1:]
CliTarget(correspondent_ids) == Head(correspondent_ids)
CliSources(correspondent_ids) == Tail(correspondent_ids)

\* the arguments of the call manager.merge_correspondents(target_id, source_id) of
\* the merge command, in the order the call passes them
CliMergeArgs(target_id, source_id) == <<target_id, source_id>>

\* merge: the argument count test, the fetch of the correspondents and the
\* validation of the ids, up to the confirmation prompt
CliMergeStart ==
    /\ Running("cli_merge", "start")
    /\ LET f == Top
       IN  IF Len(f.correspondent_ids) < 2
           THEN Exit1
           ELSE \E fetched \in BOOLEAN :
                IF ~fetched
                THEN Exit1
                ELSE IF InvalidIds(f.correspondent_ids,
                            CorrDictKeys(ServiceCorrespondents(owner, corrs))) # <<>>
                THEN Exit1
                ELSE stack' = SetTop([f EXCEPT !.pc = "confirm"]) /\ UNCHANGED status
    /\ UNCHANGED <<owner, owner0, corrs, call, result,
                 posts, merges, deletes, answers, group_merges>>

\* the message the merge command ends with when the user declines
MergeCancelled == "Merge cancelled."

\* merge: the user's answer to "Proceed with merge?"
CliMergeConfirm ==
    /\ Running("cli_merge", "confirm")
    /\ \E yes \in BOOLEAN :
        stack' = SetTop(IF yes THEN [Top EXCEPT !.pc = "loop"]
                        ELSE Returning(Top, MergeCancelled))
    /\ UNCHANGED <<owner, owner0, corrs, status, call,
                 result, posts, merges, deletes, answers, group_merges>>

\* merge: one iteration of the loop over source_ids, up to its call
CliMergeLoop ==
    /\ Running("cli_merge", "loop")
    /\ LET f == Top
           source_ids == CliSources(f.correspondent_ids)
       IN  IF f.k > Len(source_ids)
           THEN stack' = SetTop(Returning(f, NoMessage)) /\ UNCHANGED merges
           ELSE LET args == CliMergeArgs(CliTarget(f.correspondent_ids), source_ids[f.k])
                IN  /\ merges' = Append(merges, MergeEntry(args[1], args[2]))
                    /\ stack' = Append(SetTop([f EXCEPT !.pc = "wait"]),
                                       MergeFrame(args[1], args[2], Len(merges) + 1))
    /\ UNCHANGED <<owner, owner0, corrs, status, call,
                 result, posts, deletes, answers, group_merges>>

\* the group the merge-group command passes to merge_correspondent_group: valid_ids,
\* a list of ints
CliGroup(valid_ids) == [k \in 1..Len(valid_ids) |-> PyInt(valid_ids[k])]

\* the message the merge-group command ends with when fewer than two of its ids are
\* ids of fetched correspondents
NotEnoughValidIds == "Error: Not enough valid correspondent IDs found"

\* merge-group: the whole command up to its call of merge_correspondent_group
CliMergeGroupStart ==
    /\ Running("cli_merge_group", "start")
    /\ LET f == Top
       IN  IF Len(f.correspondent_ids) < 2
           THEN Exit1
           ELSE \E fetched \in BOOLEAN :
                IF ~fetched
                THEN Exit1
                ELSE LET valid_ids == ValidIds(f.correspondent_ids,
                            CorrDictKeys(ServiceCorrespondents(owner, corrs)))
                     IN  /\ stack' =
                            IF Len(valid_ids) >= 2
                            THEN Append(SetTop([f EXCEPT !.pc = "wait"]),
                                        GroupFrame(CliGroup(valid_ids),
                                            Some(CliTarget(f.correspondent_ids))))
                            ELSE SetTop(Returning(f, NotEnoughValidIds))
                         /\ UNCHANGED status
    /\ group_merges' = GroupCalls(stack')
    /\ UNCHANGED <<owner, owner0, corrs, call, result, posts, merges, deletes, answers>>

\* the frame of the delete command; yes: the option --yes was given
CliDeleteFrame(correspondent_id, yes) ==
    [fn |-> "cli_delete", correspondent_id |-> correspondent_id, yes |-> yes,
     pc |-> "confirm", ret |-> NoMessage]

\* delete: click.confirmation_option, which asks "Are you sure you want to delete
\* this correspondent?" unless --yes was given and aborts the program with exit
\* status 1 when the user declines
CliDeleteConfirm ==
    /\ Running("cli_delete", "confirm")
    /\ \E confirmed \in BOOLEAN :
        IF Top.yes \/ confirmed
        THEN stack' = SetTop([Top EXCEPT !.pc = "delete"]) /\ UNCHANGED status
        ELSE Exit1
    /\ UNCHANGED <<owner, owner0, corrs, call, result,
                 posts, merges, deletes, answers, group_merges>>

\* delete: manager.delete_correspondent(correspondent_id), a DELETE request for the
\* id given, whatever it is; its result is not used
CliDeleteRequest ==
    /\ Running("cli_delete", "delete")
    /\ \E ok \in BOOLEAN :
        LET f == Top
            id == f.correspondent_id
        IN  /\ deletes' = Append(deletes, [id |-> id, ok |-> ok,
                                           owned |-> OwnedFrom(owner, id, 1)])
            /\ owner' = IF ok /\ id \in corrs THEN ApplyDelete(owner, id) ELSE owner
            /\ corrs' = IF ok THEN corrs \ {id} ELSE corrs
            /\ stack' = SetTop(Returning(f, NoMessage))
    /\ UNCHANGED <<owner0, status, call, result, posts, merges, answers, group_merges>>

----------------------------------------------------------------------------
(* Names and calculate_similarity *)

\* a name is the sequence of its characters
Alphabet == {"a", "A", "b", "c", " "}
Names == UNION {[1..n -> Alphabet] : n \in 0..MaxNameLen}

\* str.lower() and str.strip() on the characters of the alphabet
LowerChar(c) ==
    IF c = "A" THEN "a" ELSE IF c = "Q" THEN "q" ELSE IF c = "S" THEN "s" ELSE c
IsSpace(c) == c = " "
LowerName(name) == [k \in 1..Len(name) |-> LowerChar(name[k])]

RECURSIVE LStrip(_)
LStrip(s) == IF s # <<>> /\ IsSpace(Head(s)) THEN LStrip(Tail(s)) ELSE s

RECURSIVE RStrip(_)
RStrip(s) ==
    IF s # <<>> /\ IsSpace(s[Len(s)]) THEN RStrip(SubSeq(s, 1, Len(s) - 1)) ELSE s

Strip(s) == RStrip(LStrip(s))

\* mutant: the name is lower-cased only
Normalize_NoStrip(name) == LowerName(name)

\* name.lower().strip()
Normalize(name) == Strip(LowerName(name))

\* difflib.SequenceMatcher(None, a, b) without junk; indices count from 0 and ranges
\* are half open as in the library, so a[i] of the library is a[i + 1] here.
\* j2len[j] of find_longest_match: the length of the longest common run of a[alo:]
\* and b[blo:] that ends with a[i] and b[j]
RECURSIVE RunEndingAt(_, _, _, _, _, _)
RunEndingAt(a, b, alo, blo, i, j) ==
    IF i >= alo /\ j >= blo /\ a[i + 1] = b[j + 1]
    THEN 1 + RunEndingAt(a, b, alo, blo, i - 1, j - 1)
    ELSE 0

\* the loops of find_longest_match from (i, j) on: i ascending, for each i the j
\* ascending, a run replacing the best <<besti, bestj, bestsize>> only when longer
RECURSIVE ScanMatches(_, _, _, _, _, _, _, _, _)
ScanMatches(a, b, alo, ahi, blo, bhi, i, j, best) ==
    IF i >= ahi THEN best
    ELSE IF j >= bhi THEN ScanMatches(a, b, alo, ahi, blo, bhi, i + 1, blo, best)
    ELSE LET k == RunEndingAt(a, b, alo, blo, i, j)
         IN  ScanMatches(a, b, alo, ahi, blo, bhi, i, j + 1,
                         IF k > best[3] THEN <<i - k + 1, j - k + 1, k>> ELSE best)

\* find_longest_match(alo, ahi, blo, bhi): the longest matching block, of those the
\* one starting earliest in a, of those the one starting earliest in b
FindLongestMatch(a, b, alo, ahi, blo, bhi) ==
    ScanMatches(a, b, alo, ahi, blo, bhi, alo, blo, <<alo, blo, 0>>)

\* get_matching_blocks: the total size of the blocks found by matching the longest
\* block and then the pieces to its left and to its right
RECURSIVE MatchedSize(_, _, _, _, _, _)
MatchedSize(a, b, alo, ahi, blo, bhi) ==
    LET m == FindLongestMatch(a, b, alo, ahi, blo, bhi)
        i == m[1]
        j == m[2]
        k == m[3]
    IN  IF k = 0 THEN 0
        ELSE k + (IF alo < i /\ blo < j THEN MatchedSize(a, b, alo, i, blo, j) ELSE 0)
               + (IF i + k < ahi /\ j + k < bhi
                  THEN MatchedSize(a, b, i + k, ahi, j + k, bhi) ELSE 0)

\* a float is modelled by the fraction <<numerator, denominator>> it rounds, the
\* denominator positive; the fractions met here have small terms, so two of them
\* round to the same float only when they are equal
FloatEq(x, y) == x[1] * y[2] = y[1] * x[2]
FloatGeq(x, y) == x[1] * y[2] >= y[1] * x[2]
FloatGt(x, y) == x[1] * y[2] > y[1] * x[2]

\* SequenceMatcher.ratio(): 2.0 * matches / length, and 1.0 when length is 0
Ratio(a, b) ==
    LET length == Len(a) + Len(b)
    IN  IF length = 0 THEN <<1, 1>>
        ELSE <<2 * MatchedSize(a, b, 0, Len(a), 0, Len(b)), length>>

CalculateSimilarity(name1, name2) == Ratio(Normalize(name1), Normalize(name2))

\* manager.calculate_similarity(name1, name2): no request is made
CallSimilarity ==
    /\ status = "idle"
    /\ \E name1 \in Names, name2 \in Names :
        /\ call' = [op |-> "similarity", name1 |-> name1, name2 |-> name2]
        /\ result' = CalculateSimilarity(name1, name2)
        /\ status' = "done"
    /\ UNCHANGED <<owner, owner0, corrs, stack,
                 posts, merges, deletes, answers, group_merges>>

----------------------------------------------------------------------------
(* find_similar_correspondents_pairs and find_similar_correspondents *)

\* a correspondent of the listing, with its name
Named(i, name, n) == [kind |-> "dict", id |-> i, name |-> name, document_count |-> n]

\* mutant: the comparison is turned round
IsSimilar_Below(similarity, threshold) == FloatGeq(threshold, similarity)

\* mutant: the score has to be above the threshold
IsSimilar_Above(similarity, threshold) == FloatGt(similarity, threshold)

\* similarity >= threshold
IsSimilar(similarity, threshold) == FloatGeq(similarity, threshold)

\* the loops over i and over j > i from (i, j) on: the tuples
\* (corr1, corr2, similarity) that are appended, in the order they are appended
RECURSIVE PairsFrom(_, _, _, _)
PairsFrom(correspondents, threshold, i, j) ==
    IF i > Len(correspondents) THEN <<>>
    ELSE IF j > Len(correspondents)
         THEN PairsFrom(correspondents, threshold, i + 1, i + 2)
    ELSE LET corr1 == correspondents[i]
             corr2 == correspondents[j]
             similarity == CalculateSimilarity(corr1.name, corr2.name)
         IN  (IF IsSimilar(similarity, threshold)
              THEN <<<<corr1, corr2, similarity>>>> ELSE <<>>)
             \o PairsFrom(correspondents, threshold, i, j + 1)

RECURSIVE InsertByScore_BeforeEqual(_, _)
\* mutant: a pair is put before the pairs of the same score
InsertByScore_BeforeEqual(sorted, x) ==
    IF sorted = <<>> THEN <<x>>
    ELSE IF FloatGt(Head(sorted)[3], x[3])
         THEN <<Head(sorted)>> \o InsertByScore_BeforeEqual(Tail(sorted), x)
         ELSE <<x>> \o sorted

\* list.sort(key=lambda x: x[2], reverse=True) is stable: x goes behind every pair
\* whose score is not smaller
RECURSIVE InsertByScore(_, _)
InsertByScore(sorted, x) ==
    IF sorted = <<>> THEN <<x>>
    ELSE IF FloatGeq(Head(sorted)[3], x[3])
         THEN <<Head(sorted)>> \o InsertByScore(Tail(sorted), x)
         ELSE <<x>> \o sorted

RECURSIVE SortByScore(_, _)
SortByScore(sorted, rest) ==
    IF rest = <<>> THEN sorted
    ELSE SortByScore(InsertByScore(sorted, Head(rest)), Tail(rest))

FindSimilarCorrespondentsPairs(correspondents, threshold) ==
    SortByScore(<<>>, PairsFrom(correspondents, threshold, 1, 2))

\* the code point of a character, and Python's order of two strings
Ord(c) ==
    CASE c = " " -> 32
      [] c = "A" -> 65
      [] c = "a" -> 97
      [] c = "b" -> 98
      [] c = "c" -> 99

RECURSIVE StrLt(_, _)
StrLt(s, t) ==
    IF t = <<>> THEN FALSE
    ELSE IF s = <<>> THEN TRUE
    ELSE IF Head(s) = Head(t) THEN StrLt(Tail(s), Tail(t))
    ELSE Ord(Head(s)) < Ord(Head(t))

\* similar_graph[corr1["id"]]: the ids of the other correspondents, in listing
\* order from position j on, whose name is similar to that of correspondents[i]
RECURSIVE SimilarIds(_, _, _, _)
SimilarIds(correspondents, threshold, i, j) ==
    IF j > Len(correspondents) THEN <<>>
    ELSE (IF i # j /\ IsSimilar(CalculateSimilarity(correspondents[i].name,
                                                    correspondents[j].name), threshold)
          THEN <<correspondents[j].id>> ELSE <<>>)
         \o SimilarIds(correspondents, threshold, i, j + 1)

\* next(c for c in correspondents if c["id"] == current_id): its position
RECURSIVE PositionOf(_, _, _)
PositionOf(correspondents, current_id, k) ==
    IF correspondents[k].id = current_id THEN k
    ELSE PositionOf(correspondents, current_id, k + 1)

\* the while loop over the stack of ids: <<visited, group>> when the stack is empty
RECURSIVE Traverse(_, _, _, _, _)
Traverse(correspondents, threshold, ids, visited, group) ==
    IF ids = <<>> THEN <<visited, group>>
    ELSE LET current_id == ids[Len(ids)]
             popped == SubSeq(ids, 1, Len(ids) - 1)
         IN  IF current_id \in visited
             THEN Traverse(correspondents, threshold, popped, visited, group)
             ELSE LET k == PositionOf(correspondents, current_id, 1)
                      seen == visited \cup {current_id}
                      similar == SimilarIds(correspondents, threshold, k, 1)
                  IN  Traverse(correspondents, threshold,
                               popped \o SelectSeq(similar, LAMBDA x : x \notin seen),
                               seen, Append(group, correspondents[k]))

\* group.sort(key=lambda x: x["name"].lower()) is stable: x goes behind every
\* member whose key is not larger
SortKey(x) == LowerName(x.name)

RECURSIVE InsertByName(_, _)
InsertByName(sorted, x) ==
    IF sorted = <<>> THEN <<x>>
    ELSE IF StrLt(SortKey(x), SortKey(Head(sorted)))
         THEN <<x>> \o sorted
         ELSE <<Head(sorted)>> \o InsertByName(Tail(sorted), x)

RECURSIVE SortByName(_, _)
SortByName(sorted, rest) ==
    IF rest = <<>> THEN sorted
    ELSE SortByName(InsertByName(sorted, Head(rest)), Tail(rest))

\* the loop over the correspondents from position k on: the groups that are appended
RECURSIVE GroupsFrom(_, _, _, _)
GroupsFrom(correspondents, threshold, k, visited) ==
    IF k > Len(correspondents) THEN <<>>
    ELSE IF correspondents[k].id \in visited
         THEN GroupsFrom(correspondents, threshold, k + 1, visited)
    ELSE LET t == Traverse(correspondents, threshold, <<correspondents[k].id>>,
                           visited, <<>>)
         IN  (IF Len(t[2]) > 1 THEN <<SortByName(<<>>, t[2])>> ELSE <<>>)
             \o GroupsFrom(correspondents, threshold, k + 1, t[1])

FindSimilarCorrespondents(correspondents, threshold) ==
    GroupsFrom(correspondents, threshold, 1, {})

\* the frame of a finder call; the finder first fetches the correspondents
FinderFrame(fn, threshold) ==
    [fn |-> fn, threshold |-> threshold, pc |-> "fetch", ret |-> <<>>]

\* find_similar_correspondents_pairs: get_correspondents, which ends the program
\* with sys.exit(1) when a request fails, then the pairs
FindPairsFetch ==
    /\ Running("find_pairs", "fetch")
    /\ \E fetched \in BOOLEAN :
        IF ~fetched THEN Exit1
        ELSE /\ stack' = SetTop(Returning(Top,
                    FindSimilarCorrespondentsPairs(call.correspondents, Top.threshold)))
             /\ UNCHANGED status
    /\ UNCHANGED <<owner, owner0, corrs, call, result,
                 posts, merges, deletes, answers, group_merges>>

\* find_similar_correspondents: get_correspondents, then the groups
FindSimilarFetch ==
    /\ Running("find_similar", "fetch")
    /\ \E fetched \in BOOLEAN :
        IF ~fetched THEN Exit1
        ELSE /\ stack' = SetTop(Returning(Top,
                    FindSimilarCorrespondents(call.correspondents, Top.threshold)))
             /\ UNCHANGED status
    /\ UNCHANGED <<owner, owner0, corrs, call, result,
                 posts, merges, deletes, answers, group_merges>>

----------------------------------------------------------------------------
(* find_exact_duplicates *)

\* name_groups after the loop over correspondents[k..]: a dict keeps its keys in
\* the order of their insertion, so it is the sequence of its items <<key, group>>
RECURSIVE GroupByName(_, _, _)
GroupByName(correspondents, k, name_groups) ==
    IF k > Len(correspondents) THEN name_groups
    ELSE LET name_lower == Normalize(correspondents[k].name)
             at == {g \in 1..Len(name_groups) : name_groups[g][1] = name_lower}
         IN  GroupByName(correspondents, k + 1,
                IF at = {}
                THEN Append(name_groups, <<name_lower, <<correspondents[k]>>>>)
                ELSE [g \in 1..Len(name_groups) |->
                        IF g \in at
                        THEN <<name_lower, Append(name_groups[g][2], correspondents[k])>>
                        ELSE name_groups[g]])

\* mutant: a name that occurs once is a group as well
IsDuplicateGroup_Single(group) == Len(group) >= 1

\* len(group) > 1
IsDuplicateGroup(group) == Len(group) > 1

\* [group for group in name_groups.values() if len(group) > 1]
FindExactDuplicates(correspondents) ==
    LET items == SelectSeq(GroupByName(correspondents, 1, <<>>),
                           LAMBDA item : IsDuplicateGroup(item[2]))
    IN  [g \in 1..Len(items) |-> items[g][2]]

\* the frame of a call find_exact_duplicates()
DuplicatesFrame == [fn |-> "find_duplicates", pc |-> "fetch", ret |-> <<>>]

\* find_exact_duplicates: get_correspondents, then the groups of equal names
FindDuplicatesFetch ==
    /\ Running("find_duplicates", "fetch")
    /\ \E fetched \in BOOLEAN :
        IF ~fetched THEN Exit1
        ELSE /\ stack' = SetTop(Returning(Top, FindExactDuplicates(call.correspondents)))
             /\ UNCHANGED status
    /\ UNCHANGED <<owner, owner0, corrs, call, result,
                 posts, merges, deletes, answers, group_merges>>

----------------------------------------------------------------------------
(* find_empty_correspondents and delete_empty_correspondents *)

\* mutant: a correspondent with one document counts as empty
IsEmpty_UpToOne(correspondent) == DocumentCount(correspondent) <= 1

\* correspondent.get("document_count", 0) == 0
IsEmpty(correspondent) == DocumentCount(correspondent) = 0

\* find_empty_correspondents on the fetched listing: the empty ones, in listing order
FindEmptyCorrespondents(correspondents) == SelectSeq(correspondents, IsEmpty)

\* the frame of a call delete_empty_correspondents(confirm_each)
DeleteEmptyFrame(confirm_each) ==
    [fn |-> "delete_empty", confirm_each |-> confirm_each, pc |-> "fetch", ret |-> 0,
     empty_correspondents |-> <<>>, k |-> 1, deleted_count |-> 0]

\* the head of the loop over empty_correspondents: the loop ends, or the next
\* correspondent is asked about (confirm_each) or deleted
DeleteEmptyLoop(f) ==
    IF f.k > Len(f.empty_correspondents) THEN Returning(f, f.deleted_count)
    ELSE [f EXCEPT !.pc = IF f.confirm_each THEN "ask" ELSE "delete"]

\* the entry: find_empty_correspondents fetches the correspondents (a failing
\* request ends the program with sys.exit(1)); without an empty one 0 is returned
DeleteEmptyFetch ==
    /\ Running("delete_empty", "fetch")
    /\ \E fetched \in BOOLEAN :
        IF ~fetched THEN Exit1
        ELSE LET empty_correspondents ==
                    FindEmptyCorrespondents(ServiceCorrespondents(owner, corrs))
             IN  /\ stack' = SetTop(
                        IF empty_correspondents = <<>> THEN Returning(Top, 0)
                        ELSE [Top EXCEPT !.empty_correspondents = empty_correspondents,
                                         !.pc = "print"])
                 /\ UNCHANGED status
    /\ UNCHANGED <<owner, owner0, corrs, call, result,
                 posts, merges, deletes, answers, group_merges>>

\* print_empty_correspondents fetches the correspondents once more, for printing
\* only; then the batch prompt is shown or the loop is entered
DeleteEmptyPrint ==
    /\ Running("delete_empty", "print")
    /\ \E fetched \in BOOLEAN :
        IF ~fetched THEN Exit1
        ELSE /\ stack' = SetTop(IF Top.confirm_each THEN DeleteEmptyLoop(Top)
                                ELSE [Top EXCEPT !.pc = "confirm_all"])
             /\ UNCHANGED status
    /\ UNCHANGED <<owner, owner0, corrs, call, result,
                 posts, merges, deletes, answers, group_merges>>

\* the user's answer to "Delete all n empty correspondents? (y/N)"
DeleteEmptyConfirmAll ==
    /\ Running("delete_empty", "confirm_all")
    /\ \E response \in Answers :
        /\ answers' = Append(answers, Answer("delete_all", 0, response))
        /\ stack' = SetTop(IF Lower(response) # "y" THEN Returning(Top, 0)
                           ELSE DeleteEmptyLoop(Top))
    /\ UNCHANGED <<owner, owner0, corrs, status, call,
                 result, posts, merges, deletes, group_merges>>

\* what the user may answer to a (y/N/q) prompt
AnswersOrQuit == Answers \cup {"q", "Q"}

\* the user's answer to "Delete 'name' (ID: id)? (y/N/q)": q leaves the loop, y goes
\* on to the delete request, anything else to the next correspondent
DeleteEmptyAsk ==
    /\ Running("delete_empty", "ask")
    /\ \E response \in AnswersOrQuit :
        LET f == Top
        IN  /\ answers' = Append(answers,
                    Answer("delete_each", f.empty_correspondents[f.k].id, response))
            /\ stack' = SetTop(
                    IF Lower(response) = "q" THEN Returning(f, f.deleted_count)
                    ELSE IF Lower(response) # "y"
                         THEN DeleteEmptyLoop([f EXCEPT !.k = f.k + 1])
                         ELSE [f EXCEPT !.pc = "delete"])
    /\ UNCHANGED <<owner, owner0, corrs, status, call,
                 result, posts, merges, deletes, group_merges>>

\* delete_correspondent for the correspondent at hand: a request that succeeds
\* counts, one that fails does not
DeleteEmptyDelete ==
    /\ Running("delete_empty", "delete")
    /\ \E ok \in BOOLEAN :
        LET f == Top
            id == f.empty_correspondents[f.k].id
        IN  /\ deletes' = Append(deletes, [id |-> id, ok |-> ok,
                                           owned |-> OwnedFrom(owner, id, 1)])
            /\ owner' = IF ok /\ id \in corrs THEN ApplyDelete(owner, id) ELSE owner
            /\ corrs' = IF ok THEN corrs \ {id} ELSE corrs
            /\ stack' = SetTop(DeleteEmptyLoop(
                    [f EXCEPT !.k = f.k + 1,
                              !.deleted_count = IF ok THEN @ + 1 ELSE @]))
    /\ UNCHANGED <<owner0, status, call, result, posts, merges, answers, group_merges>>

----------------------------------------------------------------------------
(* auto_merge_similar_correspondents *)

\* int(choice) on a string of decimal digits; any other string of the model raises
\* ValueError
DigitValue(c) ==
    CASE c = "0" -> 0 [] c = "1" -> 1 [] c = "2" -> 2 [] c = "3" -> 3 [] c = "4" -> 4
      [] c = "5" -> 5 [] c = "6" -> 6 [] c = "7" -> 7 [] c = "8" -> 8 [] c = "9" -> 9

IsDigit(c) == c \in {"0", "1", "2", "3", "4", "5", "6", "7", "8", "9"}

IsNumber(s) == s # <<>> /\ \A k \in 1..Len(s) : IsDigit(s[k])

RECURSIVE IntOf(_)
IntOf(s) == IF s = <<>> THEN 0 ELSE 10 * IntOf(SubSeq(s, 1, Len(s) - 1)) + DigitValue(s[Len(s)])

\* input(...).strip().lower()
Choice(entry) == LowerName(Strip(entry))

\* 1 <= choice_num <= len(group)
InGroup(choice_num, group) == 1 <= choice_num /\ choice_num <= Len(group)

\* mutant: the member after the chosen one is taken
TargetOf_Next(group, choice_num) == group[(choice_num % Len(group)) + 1]

\* target_correspondent = group[choice_num - 1], the list counted from 0
TargetOf(group, choice_num) == group[choice_num]

\* the frame of a call auto_merge_similar_correspondents(threshold);
\* invalid_entries counts the entries that were answered with a new prompt
AutoMergeFrame(threshold) ==
    [fn |-> "auto_merge", threshold |-> threshold, pc |-> "fetch", ret |-> 0,
     similar_groups |-> <<>>, i |-> 1, choice_num |-> 0, merged_count |-> 0,
     invalid_entries |-> 0]

\* the end of the iteration for group i: the next group, or the return after the last
AutoMergeNextGroup(f) ==
    IF f.i >= Len(f.similar_groups) THEN Returning(f, f.merged_count)
    ELSE [f EXCEPT !.i = f.i + 1, !.pc = "choose"]

\* the entry: find_similar_correspondents(threshold) fetches the correspondents (a
\* failing request ends the program with sys.exit(1)); without a group 0 is returned
AutoMergeFetch ==
    /\ Running("auto_merge", "fetch")
    /\ \E fetched \in BOOLEAN :
        IF ~fetched THEN Exit1
        ELSE LET similar_groups ==
                    FindSimilarCorrespondents(call.correspondents, Top.threshold)
             IN  /\ stack' = SetTop(
                        IF similar_groups = <<>> THEN Returning(Top, 0)
                        ELSE [Top EXCEPT !.similar_groups = similar_groups,
                                         !.pc = "choose"])
                 /\ UNCHANGED status
    /\ UNCHANGED <<owner, owner0, corrs, call, result,
                 posts, merges, deletes, answers, group_merges>>

\* what the user may enter at the prompt for the target: quit, skip, a number, or
\* something that is not a number
Entries == {<<"Q">>, <<" ", "s">>, <<"1">>, <<"2">>, <<"3">>, <<"x">>}

\* the user's entry at "Which correspondent should be kept as the target?": q
\* returns, s goes to the next group, a number of the group goes on to the
\* confirmation, anything else brings the same prompt again
AutoMergeChoose ==
    /\ Running("auto_merge", "choose")
    /\ \E entry \in Entries :
        LET f == Top
            group == f.similar_groups[f.i]
            choice == Choice(entry)
        IN  /\ answers' = Append(answers, Answer("target", f.i, entry))
            /\ IF choice = <<"q">> THEN stack' = SetTop(Returning(f, f.merged_count))
               ELSE IF choice = <<"s">> THEN stack' = SetTop(AutoMergeNextGroup(f))
               ELSE IF IsNumber(choice) /\ InGroup(IntOf(choice), group)
               THEN stack' = SetTop([f EXCEPT !.choice_num = IntOf(choice),
                                              !.pc = "confirm"])
               ELSE /\ f.invalid_entries < MaxInvalidEntries
                    /\ stack' = SetTop([f EXCEPT !.invalid_entries = @ + 1])
    /\ UNCHANGED <<owner, owner0, corrs, status, call, result,
                 posts, merges, deletes, group_merges>>

\* the user's answer to "Proceed with merging ...? (y/N)": y calls
\* merge_correspondent_group(group, target_id), anything else skips the group
AutoMergeConfirm ==
    /\ Running("auto_merge", "confirm")
    /\ \E confirm \in Answers :
        LET f == Top
            group == f.similar_groups[f.i]
            target_id == TargetOf(group, f.choice_num).id
        IN  /\ answers' = Append(answers, Answer("proceed", f.i, confirm))
            /\ stack' = IF Lower(confirm) = "y"
                        THEN Append(SetTop([f EXCEPT !.pc = "wait"]),
                                    GroupFrame(group, Some(target_id)))
                        ELSE SetTop(AutoMergeNextGroup(f))
    /\ group_merges' = GroupCalls(stack')
    /\ UNCHANGED <<owner, owner0, corrs, status, call, result, posts, merges, deletes>>

\* merge_correspondent_group returned v for group i
AutoMergeContinue(f, v) ==
    AutoMergeNextGroup([f EXCEPT !.merged_count = IF v THEN @ + 1 ELSE @])

----------------------------------------------------------------------------
(* Returns *)

\* the caller's frame after the call it waits for returned v
Resume(f, v) ==
    CASE f.fn = "bulk" -> BulkContinue(f, v)
      [] f.fn = "restore" -> Returning(f, v)
      [] f.fn = "merge" -> Returning(f, v)
      [] f.fn = "group" -> GroupContinue(f, v)
      [] f.fn = "cli_merge" -> [f EXCEPT !.k = f.k + 1, !.pc = "loop"]
      [] f.fn = "cli_merge_group" -> Returning(f, NoMessage)
      [] f.fn = "auto_merge" -> AutoMergeContinue(f, v)

\* merges with the result of a returning merge_correspondents call recorded
Recorded(f) ==
    IF f.fn = "merge"
    THEN [merges EXCEPT ![f.idx].returned = TRUE, ![f.idx].result = f.ret]
    ELSE merges

\* group_merges with the result of a returning merge_correspondent_group call
\* recorded: calls do not nest, so the returning call is the last one
RecordedGroup(f) ==
    IF f.fn = "group"
    THEN [group_merges EXCEPT ![Len(group_merges)].returned = TRUE,
                              ![Len(group_merges)].result = f.ret]
    ELSE group_merges

\* the running function returns to its caller, or the operation ends
Return ==
    /\ status = "running" /\ stack # <<>> /\ Top.pc = "return"
    /\ merges' = Recorded(Top)
    /\ group_merges' = RecordedGroup(Top)
    /\ IF Len(stack) = 1
       THEN /\ stack' = <<>>
            /\ status' = "done"
            /\ result' = Top.ret
       ELSE /\ stack' = SubSeq(stack, 1, Len(stack) - 2) \o
                            <<Resume(stack[Len(stack) - 1], Top.ret)>>
            /\ UNCHANGED <<status, result>>
    /\ UNCHANGED <<owner, owner0, corrs, call, posts, deletes, answers>>

----------------------------------------------------------------------------
(* Invocations: the operation, its arguments and the state of the service *)

\* the documents of a directly invoked reassignment belong to nobody yet
Unowned == [d \in DocIds |-> 0]

\* NumOwnedDocs documents, each owned by some correspondent; the documents are
\* numbered in the order of their owners' ids
Ownerships ==
    {[d \in DocIds |-> IF d <= NumOwnedDocs THEN o[d] ELSE 0] :
        o \in {x \in [1..NumOwnedDocs -> CorrIds] :
                    \A d, e \in 1..NumOwnedDocs : d < e => x[d] <= x[e]}}

\* sequences over S of a length in lo..hi
SeqsOf(S, lo, hi) == UNION {[1..n -> S] : n \in lo..hi}

\* the program starts operation c with `frame` running, the service holding `own`
Invoke(c, frame, own) ==
    /\ call' = c
    /\ stack' = <<frame>>
    /\ status' = "running"
    /\ owner' = own
    /\ owner0' = own
    /\ merges' = IF frame.fn = "merge"
                 THEN <<MergeEntry(frame.source_id, frame.target_id)>> ELSE <<>>
    /\ group_merges' = IF frame.fn = "group"
                       THEN <<GroupEntry(frame.group, frame.target_id)>> ELSE <<>>
    /\ UNCHANGED <<corrs, result, posts, deletes, answers>>

\* manager.bulk_reassign_documents(document_ids, target, batch_size)
CallBulk ==
    /\ status = "idle"
    /\ \E n \in 0..MaxBulkDocs, t \in CorrIds,
       bs \in (1..MaxBatchSize) \cup {DefaultBatchSize} :
        /\ TotalBatches(n, bs) <= MaxBatches
        /\ Invoke([op |-> "bulk", document_ids |-> Ids(n),
                   target_correspondent_id |-> t, batch_size |-> bs],
                  BulkFrame(Ids(n), t, bs, 0, 0), Unowned)

\* manager.restore_documents_to_correspondent(document_ids, target)
CallRestore ==
    /\ status = "idle"
    /\ \E n \in 0..MaxBulkDocs, t \in CorrIds :
        Invoke([op |-> "restore", document_ids |-> Ids(n),
                target_correspondent_id |-> t, batch_size |-> RestoreBatchSize],
               RestoreFrame(Ids(n), t), Unowned)

\* manager.merge_correspondents(source_id, target_id)
CallMerge ==
    /\ status = "idle"
    /\ \E s \in 1..(NumCorrs + 1), t \in CorrIds, own \in Ownerships :
        Invoke([op |-> "merge", source_id |-> s, target_id |-> t],
               MergeFrame(s, t, 1), own)

\* the groups a caller passes: distinct correspondents of the service, in any order,
\* with their document counts
Groups ==
    {g \in SeqsOf(CorrIds, 0, MaxGroup) :
        \A i, j \in 1..Len(g) : i # j => g[i] # g[j]}

GroupOf(g, own) == [k \in 1..Len(g) |-> PyDict(g[k], Some(Len(OwnedFrom(own, g[k], 1))))]

\* manager.merge_correspondent_group(group, target_id), target_id possibly None or
\* the id of no member
CallGroup ==
    /\ status = "idle"
    /\ \E own \in Ownerships, g \in Groups,
       t \in {None} \cup {Some(i) : i \in 1..(NumCorrs + 1)} :
        Invoke([op |-> "group", group |-> GroupOf(g, own), target_id |-> t],
               GroupFrame(GroupOf(g, own), t), own)

\* the document_count field of a correspondent snapshot: absent, or a number; the
\* snapshot was taken earlier and need not agree with the service's documents
Counts == {None} \cup {Some(n) : n \in 0..MaxCount}

Snapshots(g, counts) == [k \in 1..Len(g) |-> PyDict(g[k], counts[k])]

\* the service while a group of snapshots is merged: correspondent 1 owns one
\* document, whatever the snapshots say
OneOwnedDocument == [d \in DocIds |-> IF d = 1 THEN 1 ELSE 0]

\* manager.merge_correspondent_group(group) without a target, the group being
\* snapshots with any document_count fields
CallGroupSnapshots ==
    /\ status = "idle"
    /\ \E g \in Groups : \E counts \in [1..Len(g) -> Counts] :
        Invoke([op |-> "group", group |-> Snapshots(g, counts), target_id |-> None],
               GroupFrame(Snapshots(g, counts), None), OneOwnedDocument)

\* the ids of a command line: at least one, possibly unknown or repeated
CliIds == SeqsOf(1..(NumCorrs + 1), 1, MaxCliIds)

\* paperless-ngx-correspondent-manager merge T S1 ... Sn
CallCliMerge ==
    /\ status = "idle"
    /\ \E ids \in CliIds, own \in Ownerships :
        Invoke([op |-> "cli_merge", correspondent_ids |-> ids],
               CliFrame("cli_merge", ids), own)

\* paperless-ngx-correspondent-manager merge-group ID1 ... IDn
CallCliMergeGroup ==
    /\ status = "idle"
    /\ \E ids \in CliIds, own \in Ownerships :
        Invoke([op |-> "cli_merge_group", correspondent_ids |-> ids],
               CliFrame("cli_merge_group", ids), own)

\* paperless-ngx-correspondent-manager delete [--yes] ID, the id possibly unknown
CallCliDelete ==
    /\ status = "idle"
    /\ \E id \in 1..(NumCorrs + 1), yes \in BOOLEAN, own \in Ownerships :
        Invoke([op |-> "cli_delete", correspondent_id |-> id, yes |-> yes],
               CliDeleteFrame(id, yes), own)

\* the names of the correspondents of a listing, and the thresholds passed
ListingNames ==
    {<<"A">>, <<"b">>, <<" ", "b">>, <<"a", "b", "a">>, <<"b", "c", "a">>}

DefaultSimilarityThreshold == <<9, 10>>

Thresholds ==
    {<<-1, 2>>, <<0, 1>>, <<1, 2>>, <<2, 3>>, DefaultSimilarityThreshold, <<1, 1>>, <<3, 2>>}

\* the listing get_correspondents returns: correspondents with unique ids
Listings ==
    {[k \in 1..Len(names) |-> Named(k, names[k], Some(0))] :
        names \in SeqsOf(ListingNames, 0, MaxListing)}

\* manager.find_similar_correspondents_pairs(threshold)
CallFindPairs ==
    /\ status = "idle"
    /\ \E correspondents \in Listings, threshold \in Thresholds :
        Invoke([op |-> "find_pairs", correspondents |-> correspondents,
                threshold |-> threshold],
               FinderFrame("find_pairs", threshold), Unowned)

\* manager.find_similar_correspondents(threshold)
CallFindSimilar ==
    /\ status = "idle"
    /\ \E correspondents \in Listings, threshold \in Thresholds :
        Invoke([op |-> "find_similar", correspondents |-> correspondents,
                threshold |-> threshold],
               FinderFrame("find_similar", threshold), Unowned)

\* the names of the listing given to find_exact_duplicates: those of the finders of
\* similar correspondents, and two more that differ from them in case or in
\* surrounding whitespace only
DuplicateNames == ListingNames \cup {<<"a">>, <<"b", " ">>}

DuplicateListings ==
    {[k \in 1..Len(names) |-> Named(k, names[k], Some(0))] :
        names \in SeqsOf(DuplicateNames, 0, MaxListing)}

\* manager.find_exact_duplicates()
CallFindDuplicates ==
    /\ status = "idle"
    /\ \E correspondents \in DuplicateListings :
        Invoke([op |-> "find_duplicates", correspondents |-> correspondents],
               DuplicatesFrame, Unowned)

\* the services on which empty correspondents are looked for: any of the
\* correspondents exist, possibly none, and the documents belong to existing ones
\* or to nobody, so that some, all or none of the correspondents are empty
EmptyServices ==
    {sv \in [existing : SUBSET CorrIds, own : Ownerships \cup {Unowned}] :
        \A d \in DocIds : sv.own[d] \in sv.existing \cup {0}}

\* manager.delete_empty_correspondents(confirm_each); the call record keeps the
\* listing the service holds at the invocation
CallDeleteEmpty ==
    /\ status = "idle"
    /\ \E confirm_each \in BOOLEAN, sv \in EmptyServices :
        /\ call' = [op |-> "delete_empty", confirm_each |-> confirm_each,
                    correspondents |-> ServiceCorrespondents(sv.own, sv.existing)]
        /\ stack' = <<DeleteEmptyFrame(confirm_each)>>
        /\ status' = "running"
        /\ owner' = sv.own
        /\ owner0' = sv.own
        /\ corrs' = sv.existing
    /\ UNCHANGED <<result, posts, merges, deletes, answers, group_merges>>

\* the correspondents of the service when similar correspondents are merged, in
\* listing order, and the listings made of some of them
AutoMergeNames == <<<<"A">>, <<"b">>, <<"a">>, <<" ", "b">>>>

RECURSIVE SubSequences(_)
SubSequences(s) ==
    IF s = <<>> THEN {<<>>}
    ELSE LET rest == SubSequences(Tail(s))
         IN  rest \cup {<<Head(s)>> \o r : r \in rest}

\* the listing with these names: the ids are the positions, the counts those of
\* the service
ListingOf(names, own) ==
    [k \in 1..Len(names) |-> Named(k, names[k], Some(Len(OwnedFrom(own, k, 1))))]

AutoMergeThresholds == {<<0, 1>>, DefaultSimilarityThreshold}

\* manager.auto_merge_similar_correspondents(threshold); the first correspondent of
\* the listing owns a document
CallAutoMerge ==
    /\ status = "idle"
    /\ \E names \in SubSequences(AutoMergeNames), threshold \in AutoMergeThresholds :
        /\ call' = [op |-> "auto_merge", threshold |-> threshold,
                    correspondents |-> ListingOf(names, OneOwnedDocument)]
        /\ stack' = <<AutoMergeFrame(threshold)>>
        /\ status' = "running"
        /\ owner' = OneOwnedDocument
        /\ owner0' = OneOwnedDocument
        /\ corrs' = 1..Len(names)
    /\ UNCHANGED <<result, posts, merges, deletes, answers, group_merges>>

Init ==
    /\ owner = Unowned
    /\ owner0 = Unowned
    /\ corrs = CorrIds
    /\ status = "idle"
    /\ call = [op |-> "none"]
    /\ stack = <<>>
    /\ result = FALSE
    /\ posts = <<>>
    /\ merges = <<>>
    /\ deletes = <<>>
    /\ answers = <<>>
    /\ group_merges = <<>>

\* the reassignment methods invoked directly
NextReassign ==
    \/ CallBulk
    \/ CallRestore
    \/ RestoreStart
    \/ BulkRequest
    \/ Return

SpecReassign == Init /\ [][NextReassign]_vars

\* the program is sequential and every request ends (with a response, a timeout or
\* an error), so a step that can be taken is taken
SpecReassignFair == SpecReassign /\ WF_vars(NextReassign)

\* the merge methods invoked directly
NextMerge ==
    \/ CallMerge
    \/ CallGroup
    \/ MergeFetch
    \/ GroupStart
    \/ GroupLoop
    \/ GroupPrompt
    \/ GroupDelete
    \/ BulkRequest
    \/ Return

SpecMerge == Init /\ [][NextMerge]_vars

\* merge_correspondents invoked directly
NextMergeCalls ==
    \/ CallMerge
    \/ MergeFetch
    \/ BulkRequest
    \/ Return

SpecMergeCalls == Init /\ [][NextMergeCalls]_vars

\* merge_correspondent_group invoked directly, with its prompt and its deletes
NextGroup ==
    \/ CallGroup
    \/ GroupStart
    \/ GroupLoop
    \/ GroupPrompt
    \/ GroupDelete
    \/ MergeFetch
    \/ BulkRequest
    \/ Return

SpecGroup == Init /\ [][NextGroup]_vars

\* the CLI commands merge and merge-group
NextCli ==
    \/ CallCliMerge
    \/ CallCliMergeGroup
    \/ CliMergeStart
    \/ CliMergeConfirm
    \/ CliMergeLoop
    \/ CliMergeGroupStart
    \/ MergeFetch
    \/ GroupStart
    \/ BulkRequest
    \/ Return

SpecCli == Init /\ [][NextCli]_vars

\* the CLI command merge alone
NextCliMerge ==
    \/ CallCliMerge
    \/ CliMergeStart
    \/ CliMergeConfirm
    \/ CliMergeLoop
    \/ MergeFetch
    \/ BulkRequest
    \/ Return

SpecCliMerge == Init /\ [][NextCliMerge]_vars

\* merge_correspondent_group choosing its target from the snapshots' counts
NextPlan ==
    \/ CallGroupSnapshots
    \/ GroupStart
    \/ GroupLoop
    \/ GroupPrompt
    \/ GroupDelete
    \/ MergeFetch
    \/ BulkRequest
    \/ Return

SpecPlan == Init /\ [][NextPlan]_vars

\* the similarity score of two names
NextScore == CallSimilarity

SpecScore == Init /\ [][NextScore]_vars

\* the finders of similar correspondents
NextFind ==
    \/ CallFindPairs
    \/ CallFindSimilar
    \/ FindPairsFetch
    \/ FindSimilarFetch
    \/ CallFindDuplicates
    \/ FindDuplicatesFetch
    \/ Return

SpecFind == Init /\ [][NextFind]_vars

\* the deletion of the correspondents without documents
NextEmpty ==
    \/ CallDeleteEmpty
    \/ DeleteEmptyFetch
    \/ DeleteEmptyPrint
    \/ DeleteEmptyConfirmAll
    \/ DeleteEmptyAsk
    \/ DeleteEmptyDelete
    \/ Return

SpecEmpty == Init /\ [][NextEmpty]_vars

\* the interactive merge of similar correspondents
NextAuto ==
    \/ CallAutoMerge
    \/ AutoMergeFetch
    \/ AutoMergeChoose
    \/ AutoMergeConfirm
    \/ GroupStart
    \/ GroupLoop
    \/ GroupPrompt
    \/ GroupDelete
    \/ MergeFetch
    \/ BulkRequest
    \/ Return

SpecAuto == Init /\ [][NextAuto]_vars

\* the whole program: one operation per run
\* the CLI command delete
NextCliDelete ==
    \/ CallCliDelete
    \/ CliDeleteConfirm
    \/ CliDeleteRequest
    \/ Return

SpecCliDelete == Init /\ [][NextCliDelete]_vars

Next ==
    \/ NextReassign \/ NextMerge \/ NextCli \/ NextCliMerge \/ NextPlan \/ NextScore
    \/ NextFind \/ NextEmpty \/ NextAuto \/ NextCliDelete

Spec == Init /\ [][Next]_vars

----------------------------------------------------------------------------
(* Properties of the batched reassignment, read off the request log *)

IsPrefix(s, t) == Len(s) <= Len(t) /\ SubSeq(t, 1, Len(s)) = s

\* the operation is a reassignment invoked directly (bulk or restore)
Reassigning == call.op \in {"bulk", "restore"}
ReassignDone == Reassigning /\ status = "done"

\* the requests issued by the call that retries request c (c = 0: the outer call)
RequestsOf(c) == {k \in 1..Len(posts) : posts[k].caller = c}

RECURSIVE SentFrom(_, _)
\* the document ids of the requests k.. of the call retrying c, in issue order
SentFrom(c, k) ==
    IF k > Len(posts) THEN <<>>
    ELSE (IF posts[k].caller = c THEN posts[k].documents ELSE <<>>) \o SentFrom(c, k + 1)

\* the document list of the call that retries request c
ListOf(c) == IF c = 0 THEN call.document_ids ELSE posts[c].documents

RECURSIVE Succeeded(_)
\* request k succeeded, directly or through its halved retry
Succeeded(k) ==
    \/ posts[k].outcome = "ok"
    \/ /\ posts[k].outcome = "timeout"
       /\ posts[k].batch_size > 10
       /\ \A j \in RequestsOf(k) : Succeeded(j)

\* ceil(n / b)
CeilDiv(n, b) == (n + b - 1) \div b

\* C1: a finished reassignment of a non-empty list returns True exactly when every
\* batch of it succeeded directly or via its halved retry (one unrecovered batch
\* makes it False); when it returns True every document id was part of a request
\* that succeeded.
C1_TrueIffEveryBatchSucceeded ==
    (ReassignDone /\ call.document_ids # <<>>) =>
        /\ result = (\A k \in RequestsOf(0) : Succeeded(k))
        /\ SentFrom(0, 1) = call.document_ids
        /\ result => \A d \in 1..Len(call.document_ids) :
                        \E k \in 1..Len(posts) :
                            /\ posts[k].outcome = "ok"
                            /\ \E x \in 1..Len(posts[k].documents) :
                                posts[k].documents[x] = call.document_ids[d]

\* a True result reached through a retried timeout, with several batches
C1_Witness ==
    /\ ReassignDone /\ result
    /\ Cardinality(RequestsOf(0)) >= 2
    /\ \E k \in 1..Len(posts) : posts[k].outcome = "timeout"

\* C2: a timed-out request of a batch size above 10 is retried with batch_size // 2:
\* the retry's requests carry the ids of the timed-out batch, in order and nothing
\* else, in consecutive sub-batches of batch_size // 2 (the last may be shorter);
\* when every request either succeeds or is such a timeout, the result is True.
C2_RetrySameBatchHalved ==
    Reassigning =>
        /\ \A k \in 1..Len(posts) :
            (posts[k].outcome = "timeout" /\ posts[k].batch_size > 10) =>
                /\ IsPrefix(SentFrom(k, 1), posts[k].documents)
                /\ status = "done" => SentFrom(k, 1) = posts[k].documents
                /\ \A j \in RequestsOf(k) :
                    /\ j > k
                    /\ posts[j].batch_size = posts[k].batch_size \div 2
                    /\ posts[j].correspondent = posts[k].correspondent
                    /\ Len(posts[j].documents) <= posts[k].batch_size \div 2
                    /\ Len(posts[j].documents) = posts[k].batch_size \div 2
                        \/ SentFrom(k, j + 1) = <<>>
        /\ (status = "done" /\ \A k \in 1..Len(posts) :
                \/ posts[k].outcome = "ok"
                \/ posts[k].outcome = "timeout" /\ posts[k].batch_size > 10)
            => result

\* a timed-out batch, not the only one of its call, retried in several sub-batches
\* that all succeed
C2_Witness ==
    /\ ReassignDone /\ result
    /\ \E k \in 1..Len(posts) :
        /\ posts[k].outcome = "timeout"
        /\ posts[k].caller = 0
        /\ Cardinality(RequestsOf(0)) >= 2
        /\ Cardinality(RequestsOf(k)) >= 2

\* C3: a timeout of a request with batch size 10 or less is not retried, makes the
\* result False, and does not stop the call: every batch of the call's list is
\* still requested.
C3_TimeoutAtFloorIsFatalForBatchOnly ==
    Reassigning =>
        \A k \in 1..Len(posts) :
            (posts[k].outcome = "timeout" /\ posts[k].batch_size <= 10) =>
                /\ RequestsOf(k) = {}
                /\ status = "done" =>
                    /\ ~result
                    /\ SentFrom(posts[k].caller, 1) = ListOf(posts[k].caller)

\* a fatal timeout on a batch that is followed by another batch of the same call
C3_Witness ==
    /\ ReassignDone
    /\ \E k \in 1..Len(posts) :
        /\ posts[k].outcome = "timeout"
        /\ posts[k].batch_size <= 10
        /\ \E j \in RequestsOf(posts[k].caller) : j > k

\* C4: a request that fails without timing out is not retried and does not stop the
\* call: the result is False and every batch is still requested, so that without
\* timeouts exactly ceil(len(document_ids) / batch_size) requests are issued.
C4_ErrorNotRetriedNotAborting ==
    Reassigning =>
        /\ \A k \in 1..Len(posts) :
            posts[k].outcome = "error" =>
                /\ RequestsOf(k) = {}
                /\ status = "done" =>
                    /\ ~result
                    /\ SentFrom(posts[k].caller, 1) = ListOf(posts[k].caller)
        /\ (status = "done" /\ \A k \in 1..Len(posts) : posts[k].outcome # "timeout")
            => Len(posts) = CeilDiv(Len(call.document_ids), call.batch_size)

\* a failure that is not a timeout on a batch before the last, and no timeout
C4_Witness ==
    /\ ReassignDone
    /\ Len(posts) >= 3
    /\ posts[1].outcome = "error"
    /\ \A k \in 1..Len(posts) : posts[k].outcome # "timeout"

RECURSIVE AllSent(_)
\* the document ids of the requests k.., in issue order
AllSent(k) == IF k > Len(posts) THEN <<>> ELSE posts[k].documents \o AllSent(k + 1)

\* C5: when no request fails, exactly ceil(n / batch_size) requests are issued, each
\* with at most batch_size ids, and their id lists in issue order make up
\* document_ids.
C5_PartitionInOrder ==
    (ReassignDone /\ \A k \in 1..Len(posts) : posts[k].outcome = "ok") =>
        /\ Len(posts) = CeilDiv(Len(call.document_ids), call.batch_size)
        /\ \A k \in 1..Len(posts) :
            /\ Len(posts[k].documents) <= call.batch_size
            /\ posts[k].documents # <<>>
            /\ posts[k].method = "set_correspondent"
            /\ posts[k].correspondent = call.target_correspondent_id
        /\ AllSent(1) = call.document_ids

\* three requests that all succeed, the last one shorter than the batch size
C5_Witness ==
    /\ ReassignDone
    /\ Len(posts) = 3
    /\ \A k \in 1..Len(posts) : posts[k].outcome = "ok"
    /\ Len(posts[3].documents) < call.batch_size
    /\ Len(posts[1].documents) = call.batch_size

\* C6: with an empty document_ids, bulk_reassign_documents and
\* restore_documents_to_correspondent return True and issue no request.
C6_EmptyListNoRequest ==
    (Reassigning /\ call.document_ids = <<>>) =>
        /\ posts = <<>>
        /\ status \in {"running", "done"}
        /\ status = "done" => result

\* a finished bulk_reassign_documents([], target, batch_size) with a small batch size
C6_Witness ==
    /\ status = "done" /\ call.op = "bulk"
    /\ call.document_ids = <<>> /\ call.batch_size = 1
    /\ result /\ posts = <<>>

----------------------------------------------------------------------------
(* Properties of the merge orchestration and of the CLI commands *)

\* the ids of the members of the group passed to merge_correspondent_group
GroupIds == [k \in 1..Len(call.group) |-> call.group[k].id]

\* the group passes the entry tests: two members at least, the target one of them
GroupRequestValid ==
    /\ Len(call.group) >= 2
    /\ call.target_id # None => \E k \in 1..Len(call.group) : GroupIds[k] = call.target_id[1]

\* the source ids of the merge_correspondents calls so far, in call order
MergeSources == [k \in 1..Len(merges) |-> merges[k].source_id]

\* C7: merge_correspondent_group calls merge_correspondents(member_id, target_id) once
\* for every member that is not the target, in group order, whatever the earlier
\* calls returned, and returns the conjunction of the results of these calls.
C7_GroupMergeNoShortCircuit ==
    (call.op = "group" /\ GroupRequestValid) =>
        /\ status \in {"running", "done"}
        /\ LET ids == GroupIds
               called == MergeSources
           IN  \E t \in {ids[k] : k \in 1..Len(ids)} :
                /\ call.target_id # None => t = call.target_id[1]
                /\ \A k \in 1..Len(merges) : merges[k].target_id = t
                /\ LET sources == SelectSeq(ids, LAMBDA x : x # t)
                   IN  IF status = "done"
                       THEN /\ called = sources
                            /\ \A k \in 1..Len(merges) : merges[k].returned
                            /\ result = (\A k \in 1..Len(merges) : merges[k].result)
                       ELSE IsPrefix(called, sources)

\* the merge of the first source fails, the second is still attempted and succeeds
C7_Witness ==
    /\ call.op = "group" /\ status = "done"
    /\ Len(merges) = 2
    /\ ~merges[1].result /\ merges[2].result
    /\ posts # <<>> /\ posts[Len(posts)].merge = 2
    /\ ~result

\* C8: a merge whose fetch of the source's documents failed returns False, and so
\* does the group merge it belongs to.
C8_FailedFetchFailsMerge ==
    /\ \A k \in 1..Len(merges) :
        (merges[k].returned /\ merges[k].fetch_failed) => ~merges[k].result
    /\ (call.op = "group" /\ status = "done"
            /\ \E k \in 1..Len(merges) : merges[k].fetch_failed) => ~result

\* C9: in `merge T S1 ... Sn` every merge_correspondents call has source Si and
\* target T, every reassignment request names T as the new correspondent and
\* carries only documents that belonged to some Si (none that belonged to T).
C9_CliMergeIntoFirstId ==
    call.op = "cli_merge" =>
        /\ \A k \in 1..Len(merges) :
            /\ merges[k].target_id = call.correspondent_ids[1]
            /\ merges[k].source_id = call.correspondent_ids[k + 1]
        /\ \A k \in 1..Len(posts) :
            /\ posts[k].correspondent = call.correspondent_ids[1]
            /\ \A x \in 1..Len(posts[k].documents) :
                owner0[posts[k].documents[x]] \in
                    {call.correspondent_ids[i] : i \in 2..Len(call.correspondent_ids)}

\* C10: `merge-group ID1 ... IDn` with two or more distinct ids that all exist, once
\* the correspondents were fetched, ends without an error, having merged every
\* other id into ID1.
C10_CliMergeGroupCompletes ==
    (/\ call.op = "cli_merge_group"
     /\ status \in {"done", "crashed"}
     /\ Len(call.correspondent_ids) >= 2
     /\ \A i, j \in 1..Len(call.correspondent_ids) :
            /\ call.correspondent_ids[i] \in CorrIds
            /\ i # j => call.correspondent_ids[i] # call.correspondent_ids[j]) =>
        /\ status = "done"
        /\ \A i \in 2..Len(call.correspondent_ids) :
            (call.correspondent_ids[i] \in CorrIds
                /\ call.correspondent_ids[i] # call.correspondent_ids[1]) =>
                \E k \in 1..Len(merges) :
                    /\ merges[k].source_id = call.correspondent_ids[i]
                    /\ merges[k].target_id = call.correspondent_ids[1]
                    /\ merges[k].returned

----------------------------------------------------------------------------
(* Properties of the choice of the merge target and of the entry tests *)

\* the document count the claim reads from member k of the group: 0 when absent
CountRead(k) ==
    IF call.group[k].document_count = None THEN 0 ELSE call.group[k].document_count[1]

\* the ids of the group's members other than member k, in group order
OthersOf(k) ==
    [j \in 1..(Len(call.group) - 1) |-> IF j < k THEN GroupIds[j] ELSE GroupIds[j + 1]]

\* C11: without an explicit target, merge_correspondent_group merges into the member
\* with the largest document_count (an absent count reading as 0), the first such
\* member in group order when several share it, and the sources are all the other
\* members, in group order.
C11_TargetIsFirstMaxCount ==
    (call.op = "group" /\ call.target_id = None /\ Len(call.group) >= 2) =>
        \E k \in 1..Len(call.group) :
            /\ \A j \in 1..Len(call.group) : CountRead(j) <= CountRead(k)
            /\ \A j \in 1..(k - 1) : CountRead(j) < CountRead(k)
            /\ \A m \in 1..Len(merges) : merges[m].target_id = GroupIds[k]
            /\ IsPrefix(MergeSources, OthersOf(k))
            /\ status = "done" => MergeSources = OthersOf(k)

\* the first member has no count, the second and third share the largest count: the
\* second is the target, the first and the third were merged into it
C11_Witness ==
    /\ call.op = "group" /\ call.target_id = None /\ status = "done"
    /\ Len(call.group) = 3
    /\ call.group[1].document_count = None
    /\ call.group[2].document_count = Some(MaxCount)
    /\ call.group[3].document_count = Some(MaxCount)
    /\ MergeSources = <<GroupIds[1], GroupIds[3]>>
    /\ merges[1].target_id = GroupIds[2] /\ merges[2].target_id = GroupIds[2]

\* C12: a group merge whose group has fewer than two members, or whose explicit
\* target is the id of no member, fails at once: it returns False to its caller
\* without having fetched documents, requested a reassignment or a delete, and
\* without having called merge_correspondents.
C12_InvalidGroupFailsBeforeAnyRequest ==
    (call.op = "group" /\ ~GroupRequestValid) =>
        /\ status \in {"running", "done"}
        /\ Len(stack) <= 1
        /\ merges = <<>> /\ posts = <<>> /\ deletes = <<>>
        /\ owner = owner0 /\ corrs = CorrIds
        /\ status = "done" => ~result

\* a group of two or more members whose explicit target is none of them has failed
C12_Witness ==
    /\ call.op = "group" /\ status = "done" /\ ~result
    /\ Len(call.group) >= 2
    /\ call.target_id # None
    /\ \A k \in 1..Len(call.group) : GroupIds[k] # call.target_id[1]
    /\ \E k \in 1..Len(call.group) : OwnedFrom(owner, GroupIds[k], 1) # <<>>
    /\ merges = <<>> /\ posts = <<>>

\* C13: merge_correspondents(x, x) is rejected: it requests no reassignment and does
\* not report success (stated for the runs in which every fetch of documents
\* succeeded).
C13_SelfMergeRejected ==
    (/\ call.op = "merge" /\ call.source_id = call.target_id
     /\ \A k \in 1..Len(merges) : ~merges[k].fetch_failed) =>
        /\ posts = <<>>
        /\ ~(status = "done" /\ result)

----------------------------------------------------------------------------
(* Properties of the similarity score *)

\* the normalized form of a name, as the claims describe it: the characters from the
\* first to the last one that is not whitespace, upper-case letters replaced
NormalForm(name) ==
    LET inked == {k \in 1..Len(name) : name[k] # " "}
        first == CHOOSE k \in inked : \A x \in inked : k <= x
        last == CHOOSE k \in inked : \A x \in inked : k >= x
    IN  IF inked = {} THEN <<>>
        ELSE [k \in 1..(last - first + 1) |->
                IF name[first + k - 1] = "A" THEN "a" ELSE name[first + k - 1]]

\* C16: calculate_similarity(a, b) = calculate_similarity(b, a) for all names a, b.
C16_SimilaritySymmetric ==
    (call.op = "similarity" /\ status = "done") =>
        FloatEq(result, CalculateSimilarity(call.name2, call.name1))

\* C17: calculate_similarity returns a value in [0, 1]; exactly 1.0 when the two
\* normalized names are equal, both empty included; exactly 0.0 when exactly one
\* of the two normalized names is empty.
C17_SimilarityRangeAndEdges ==
    (call.op = "similarity" /\ status = "done") =>
        /\ FloatGeq(result, <<0, 1>>) /\ FloatGeq(<<1, 1>>, result)
        /\ NormalForm(call.name1) = NormalForm(call.name2) => FloatEq(result, <<1, 1>>)
        /\ (NormalForm(call.name1) = <<>>) # (NormalForm(call.name2) = <<>>) =>
                FloatEq(result, <<0, 1>>)

\* two names that differ in case and in surrounding whitespace score 1.0
C17_Witness ==
    /\ call.op = "similarity" /\ status = "done"
    /\ call.name1 = <<" ", "A", "b">> /\ call.name2 = <<"a", "b", " ">>
    /\ FloatEq(result, <<1, 1>>)

----------------------------------------------------------------------------
(* Properties of the finders of similar correspondents *)

\* the threshold lies in [0, 1]
InRange(threshold) == FloatGeq(threshold, <<0, 1>>) /\ FloatGeq(<<1, 1>>, threshold)

\* C14: an operation given a threshold outside [0, 1] does not run: it never
\* completes, computes no groups or pairs and attempts no merge.
C14_InvalidThresholdRejected ==
    ("threshold" \in DOMAIN call /\ ~InRange(call.threshold)) =>
        /\ status # "done"
        /\ \A k \in 1..Len(stack) : stack[k].pc # "return"
        /\ merges = <<>>

\* C15: for thresholds t1 <= t2, find_similar_correspondents returns at most as many
\* groups at t2 as at t1, and find_similar_correspondents_pairs at most as many
\* pairs (stated for the thresholds of [0, 1]).
C15_RaisingThresholdNeverAddsGroupsOrPairs ==
    (status = "done" /\ call.op \in {"find_similar", "find_pairs"}
        /\ InRange(call.threshold)) =>
        \A t1 \in Thresholds :
            (InRange(t1) /\ FloatGeq(call.threshold, t1)) =>
                /\ call.op = "find_similar" =>
                        Len(result) <=
                            Len(FindSimilarCorrespondents(call.correspondents, t1))
                /\ call.op = "find_pairs" =>
                        Len(result) <=
                            Len(FindSimilarCorrespondentsPairs(call.correspondents, t1))

\* C15, amended: for thresholds t1 <= t2, every pair that
\* find_similar_correspondents_pairs returns at t2 is returned at t1 as well, so
\* there are at most as many pairs at t2 as at t1.
C15_RaisingThresholdNeverAddsPairs ==
    (status = "done" /\ call.op = "find_pairs") =>
        \A t1 \in Thresholds :
            FloatGeq(call.threshold, t1) =>
                LET lower == FindSimilarCorrespondentsPairs(call.correspondents, t1)
                IN  /\ Len(result) <= Len(lower)
                    /\ \A k \in 1..Len(result) :
                            \E m \in 1..Len(lower) : lower[m] = result[k]

\* at threshold 1 some pairs are returned, and fewer than at threshold 1/2
C15_Witness ==
    /\ status = "done" /\ call.op = "find_pairs"
    /\ call.threshold = <<1, 1>>
    /\ result # <<>>
    /\ Len(result) < Len(FindSimilarCorrespondentsPairs(call.correspondents, <<1, 2>>))

\* the correspondents at positions i and j of the listing score >= threshold, in
\* one order of the two names at least
EdgeBetween(i, j) ==
    /\ i # j
    /\ \/ FloatGeq(CalculateSimilarity(call.correspondents[i].name,
                                       call.correspondents[j].name), call.threshold)
       \/ FloatGeq(CalculateSimilarity(call.correspondents[j].name,
                                       call.correspondents[i].name), call.threshold)

\* the ids linked to an id of S by a chain of edges (ids are listing positions)
RECURSIVE ComponentOf(_)
ComponentOf(S) ==
    LET T == S \cup {j \in 1..Len(call.correspondents) : \E i \in S : EdgeBetween(i, j)}
    IN  IF T = S THEN S ELSE ComponentOf(T)

Components ==
    {C \in {ComponentOf({i}) : i \in 1..Len(call.correspondents)} : Cardinality(C) >= 2}

MembersOf(group) == {group[k].id : k \in 1..Len(group)}
GroupSets(groups) == {MembersOf(groups[g]) : g \in 1..Len(groups)}

Reorderings(n) == {f \in [1..n -> 1..n] : \A i, j \in 1..n : i # j => f[i] # f[j]}

\* C18: the groups of find_similar_correspondents are exactly the connected
\* components of two or more correspondents of the graph of the pairs scoring
\* >= threshold: no correspondent is twice in a group or in two groups, and the
\* listing in any other order gives the same groups (stated for the thresholds of
\* [0, 1]).
C18_GroupsAreConnectedComponents ==
    (status = "done" /\ call.op = "find_similar" /\ InRange(call.threshold)) =>
        /\ GroupSets(result) = Components
        /\ \A g \in 1..Len(result) : Len(result[g]) = Cardinality(MembersOf(result[g]))
        /\ \A g, h \in 1..Len(result) :
                g # h => MembersOf(result[g]) \cap MembersOf(result[h]) = {}
        /\ \A f \in Reorderings(Len(call.correspondents)) :
                GroupSets(FindSimilarCorrespondents(
                    [k \in 1..Len(call.correspondents) |-> call.correspondents[f[k]]],
                    call.threshold)) = GroupSets(result)

\* C19: the members of every group of find_similar_correspondents are in ascending
\* order of their normalized (lower-cased and stripped) names (stated for the
\* thresholds of [0, 1]).
C19_GroupSortedByNormalizedName ==
    (status = "done" /\ call.op = "find_similar" /\ InRange(call.threshold)) =>
        \A g \in 1..Len(result) :
            \A k \in 1..(Len(result[g]) - 1) :
                ~StrLt(NormalForm(result[g][k + 1].name), NormalForm(result[g][k].name))

\* the score of the correspondents at positions i and j, in that order
ScoreOf(i, j) ==
    CalculateSimilarity(call.correspondents[i].name, call.correspondents[j].name)

\* the positions i < j whose score is >= threshold
SimilarPositions ==
    {q \in (1..Len(call.correspondents)) \X (1..Len(call.correspondents)) :
        q[1] < q[2] /\ FloatGeq(ScoreOf(q[1], q[2]), call.threshold)}

\* C20: find_similar_correspondents_pairs returns exactly the pairs i < j of the
\* listing whose score is >= threshold, each once with its score, in descending
\* order of score, the pairs of equal score in the order of (i, j).
C20_PairsExactSortedStable ==
    (status = "done" /\ call.op = "find_pairs") =>
        /\ Len(result) = Cardinality(SimilarPositions)
        /\ \A k \in 1..Len(result) :
                \E q \in SimilarPositions :
                    result[k] = <<call.correspondents[q[1]], call.correspondents[q[2]],
                                  ScoreOf(q[1], q[2])>>
        /\ \A k, m \in 1..Len(result) :
                k < m =>
                    \/ FloatGt(result[k][3], result[m][3])
                    \/ /\ FloatEq(result[k][3], result[m][3])
                       /\ \/ result[k][1].id < result[m][1].id
                          \/ /\ result[k][1].id = result[m][1].id
                             /\ result[k][2].id < result[m][2].id

\* three pairs or more, two of them with equal scores, and a pair found later
\* placed before a pair found earlier because it scores higher
C20_Witness ==
    /\ status = "done" /\ call.op = "find_pairs"
    /\ call.threshold = <<1, 2>>
    /\ Len(result) >= 3
    /\ \E k, m \in 1..Len(result) : k < m /\ FloatEq(result[k][3], result[m][3])
    /\ \E k, m \in 1..Len(result) :
            /\ k < m /\ FloatGt(result[k][3], result[m][3])
            /\ result[k][1].id > result[m][1].id

----------------------------------------------------------------------------
(* Properties of find_exact_duplicates *)

\* the positions of the listing that are members of group g of the result (the id
\* of a correspondent of the listing is its position)
PositionsOf(group) == [k \in 1..Len(group) |-> group[k].id]

\* C21: find_exact_duplicates returns exactly the classes of two or more
\* correspondents with equal normalized names: two correspondents are in the same
\* group iff their normalized names are equal, nobody is in two groups or twice in
\* one, the members of a group are in listing order, and the groups are in the order
\* of the first occurrence of their names in the listing.
C21_ExactDuplicatesAreNameClasses ==
    (status = "done" /\ call.op = "find_duplicates") =>
        /\ \A g \in 1..Len(result) :
            /\ Len(result[g]) >= 2
            /\ \A k \in 1..Len(result[g]) :
                    result[g][k] = call.correspondents[result[g][k].id]
            /\ \A k \in 1..(Len(result[g]) - 1) : result[g][k].id < result[g][k + 1].id
        /\ \A g \in 1..(Len(result) - 1) : result[g][1].id < result[g + 1][1].id
        /\ \A g, h \in 1..Len(result) :
                g # h => MembersOf(result[g]) \cap MembersOf(result[h]) = {}
        /\ \A i, j \in 1..Len(call.correspondents) :
                i # j =>
                    ((\E g \in 1..Len(result) : {i, j} \subseteq MembersOf(result[g]))
                        <=> NormalForm(call.correspondents[i].name)
                                = NormalForm(call.correspondents[j].name))

\* two groups, the first made of names that differ in case, the second of names that
\* differ in surrounding whitespace, their members interleaved in the listing
C21_Witness ==
    /\ status = "done" /\ call.op = "find_duplicates"
    /\ Len(call.correspondents) = 4
    /\ Len(result) = 2
    /\ PositionsOf(result[1]) = <<1, 3>> /\ PositionsOf(result[2]) = <<2, 4>>
    /\ result[1][1].name = <<"A">> /\ result[1][2].name = <<"a">>
    /\ result[2][1].name = <<" ", "b">> /\ result[2][2].name = <<"b", " ">>

----------------------------------------------------------------------------
(* Properties of merge_correspondents *)

\* the requests issued by the reassignment that call m of merge_correspondents
\* delegates to, those of its retries left out
IsDelegated(m, k) == posts[k].merge = m /\ posts[k].caller = 0

DelegatedRequests(m) == {k \in 1..Len(posts) : IsDelegated(m, k)}

RECURSIVE DelegatedFrom(_, _)
\* the document ids of these requests from request k on, in issue order
DelegatedFrom(m, k) ==
    IF k > Len(posts) THEN <<>>
    ELSE (IF IsDelegated(m, k) THEN posts[k].documents ELSE <<>>)
         \o DelegatedFrom(m, k + 1)

\* C22: merge_correspondents(source_id, target_id) fetches the documents of
\* source_id (all of those the service holds when no request of the fetch fails);
\* when it fetched none it returns True and no reassignment is requested; otherwise
\* the reassignment it delegates to gets the fetched ids in fetched order, target_id
\* and the batch size 50, and the merge returns what that reassignment returns.
C22_MergeDelegatesFetchedIds ==
    call.op \in {"merge", "group"} =>
        \A m \in 1..Len(merges) :
            /\ ~merges[m].fetch_failed => merges[m].fetched = merges[m].listing
            /\ merges[m].fetched = <<>> =>
                /\ \A k \in 1..Len(posts) : posts[k].merge # m
                /\ merges[m].returned => merges[m].result
            /\ \A k \in 1..Len(posts) :
                posts[k].merge = m =>
                    /\ posts[k].correspondent = merges[m].target_id
                    /\ posts[k].method = "set_correspondent"
                    /\ posts[k].caller = 0 => posts[k].batch_size = 50
            /\ LET delegated == DelegatedFrom(m, 1)
               IN  IF merges[m].returned
                   THEN /\ delegated = merges[m].fetched
                        /\ merges[m].fetched # <<>> =>
                            merges[m].result =
                                (\A k \in 1..Len(posts) : IsDelegated(m, k) => Succeeded(k))
                   ELSE IsPrefix(delegated, merges[m].fetched)

\* a merge of a source with two documents whose request timed out and was retried
\* with success
C22_Witness ==
    /\ call.op = "merge" /\ status = "done" /\ result
    /\ Len(merges) = 1
    /\ Len(merges[1].fetched) = 2 /\ merges[1].result
    /\ DelegatedRequests(1) = {1}
    /\ posts[1].outcome = "timeout" /\ posts[1].documents = merges[1].fetched
    /\ Len(posts) = 2 /\ posts[2].outcome = "ok"

----------------------------------------------------------------------------
(* Properties of the CLI command merge *)

\* the ids given on the command line that are the id of no fetched correspondent
UnknownIds == {call.correspondent_ids[k] : k \in 1..Len(call.correspondent_ids)} \ CorrIds

\* C23: the merge command calls merge_correspondents only when two ids or more were
\* given, every one of them is the id of a fetched correspondent and the user
\* confirmed; with an unknown id it exits with status 1, after a declined prompt it
\* ends with the cancellation message, both times without a merge call.
C23_CliMergeGuards ==
    call.op = "cli_merge" =>
        /\ merges # <<>> =>
            /\ Len(call.correspondent_ids) >= 2
            /\ UnknownIds = {}
            /\ status \in {"running", "done"}
            /\ status = "done" => result # MergeCancelled
        /\ UnknownIds # {} =>
            /\ status \in {"running", "exit1"}
            /\ status = "running" => (Len(stack) = 1 /\ Top.pc = "start")
        /\ (status = "done" /\ merges = <<>>) => result = MergeCancelled
        /\ (status = "running" /\ stack[1].pc = "return" /\ stack[1].ret = MergeCancelled)
                => merges = <<>>
        /\ (merges = <<>> \/ status = "exit1") =>
                (posts = <<>> /\ owner = owner0 /\ deletes = <<>>)

\* a confirmed merge of two known ids made its merge call, which requested a
\* reassignment
C23_Witness ==
    /\ call.op = "cli_merge" /\ status = "done"
    /\ Len(call.correspondent_ids) = MaxCliIds
    /\ Len(merges) = MaxCliIds - 1 /\ posts # <<>>
    /\ result # MergeCancelled

\* a declined merge of known ids, one of which owns documents, ended with the
\* cancellation message
C23_Declined ==
    /\ call.op = "cli_merge" /\ status = "done"
    /\ result = MergeCancelled
    /\ \E d \in DocIds : owner[d] = call.correspondent_ids[1]

----------------------------------------------------------------------------
(* Properties of delete_empty_correspondents *)

\* the user said yes
SaidYes(answer) == answer.response \in {"y", "Y"}

\* the user said quit
SaidQuit(answer) == answer.response \in {"q", "Q"}

\* the ids the user said yes to so far, in the order of the answers
ConfirmedIds ==
    LET yes == SelectSeq(answers, SaidYes)
    IN  [k \in 1..Len(yes) |-> yes[k].about]

DeletedIds == [k \in 1..Len(deletes) |-> deletes[k].id]

\* the correspondents that existed when the operation was invoked
ExistingAtFetch == {call.correspondents[k].id : k \in 1..Len(call.correspondents)}

\* those of them without documents then, which is what the fetched snapshot shows
EmptyAtFetch == {c \in ExistingAtFetch : \A d \in DocIds : owner0[d] # c}

\* C24: delete_empty_correspondents requests the deletion only of correspondents
\* whose document_count is 0 in the fetched snapshot, and only after the
\* confirmation: in batch mode one 'y' for all of them, otherwise a 'y' for the
\* correspondent itself, and none after a 'q'; it returns the number of delete
\* requests that succeeded, and returns 0 without a delete request when the batch
\* prompt is declined or no correspondent is empty.
C24_DeleteEmptyOnlyConfirmed ==
    call.op = "delete_empty" =>
        /\ \A k \in 1..Len(deletes) :
            /\ deletes[k].id \in EmptyAtFetch
            /\ deletes[k].owned = <<>>
            /\ \A j \in 1..Len(deletes) : j # k => deletes[j].id # deletes[k].id
        /\ ~call.confirm_each =>
            /\ Len(answers) <= 1
            /\ deletes # <<>> => (answers # <<>> /\ SaidYes(answers[1]))
            /\ (status = "done" /\ answers # <<>> /\ ~SaidYes(answers[1])) =>
                    (result = 0 /\ deletes = <<>>)
        /\ call.confirm_each =>
            /\ IsPrefix(DeletedIds, ConfirmedIds)
            /\ Len(ConfirmedIds) <= Len(DeletedIds) + 1
            /\ \A k \in 1..Len(answers) :
                    SaidQuit(answers[k]) =>
                        (k = Len(answers) /\ DeletedIds = ConfirmedIds)
            /\ status = "done" => DeletedIds = ConfirmedIds
        /\ status = "exit1" => deletes = <<>>
        /\ status = "done" =>
                result = Cardinality({k \in 1..Len(deletes) : deletes[k].ok})
        /\ EmptyAtFetch = {} => (deletes = <<>> /\ answers = <<>>)
        /\ (status = "done" /\ EmptyAtFetch = {}) => result = 0

\* two correspondents exist and each owns a document: no correspondent is empty, and
\* the call returned 0 without a prompt and without a delete request
C24_Witness ==
    /\ call.op = "delete_empty" /\ status = "done"
    /\ Cardinality(ExistingAtFetch) = 2 /\ EmptyAtFetch = {}
    /\ answers = <<>> /\ deletes = <<>>
    /\ result = 0

\* further cases of the claim that are reached.  With a prompt for each of two empty
\* correspondents beside one that owns documents: the first confirmed and deleted,
\* the second answered with q; the call returned 1
C24_EachConfirmedThenQuit ==
    /\ call.op = "delete_empty" /\ call.confirm_each /\ status = "done"
    /\ Len(answers) = 2
    /\ SaidYes(answers[1]) /\ SaidQuit(answers[2])
    /\ Len(deletes) = 1 /\ deletes[1].ok /\ deletes[1].id = answers[1].about
    /\ EmptyAtFetch # ExistingAtFetch
    /\ result = 1

\* in batch mode one 'y' deleted two empty correspondents, one request failing
C24_BatchConfirmed ==
    /\ call.op = "delete_empty" /\ ~call.confirm_each /\ status = "done"
    /\ Len(answers) = 1 /\ SaidYes(answers[1])
    /\ Len(deletes) = 2 /\ deletes[1].ok /\ ~deletes[2].ok
    /\ result = 1

\* in batch mode the prompt was declined: 0 is returned, nothing is deleted
C24_BatchDeclined ==
    /\ call.op = "delete_empty" /\ ~call.confirm_each /\ status = "done"
    /\ Len(answers) = 1 /\ ~SaidYes(answers[1])
    /\ EmptyAtFetch # {}
    /\ deletes = <<>> /\ result = 0

----------------------------------------------------------------------------
(* Properties of auto_merge_similar_correspondents *)

\* the groups the operation found
AutoGroups == FindSimilarCorrespondents(call.correspondents, call.threshold)

\* the user's answers to the two prompts of the operation itself, in order
IsAutoAnswer(a) == a.prompt \in {"target", "proceed"}
AutoAnswers == SelectSeq(answers, IsAutoAnswer)

\* how the claim reads an entry at the target prompt
EntersQuit(a) == a.response \in {<<"q">>, <<"Q">>}
EntersSkip(a) == a.response \in {<<"s">>, <<" ", "s">>}
IndexEntered(a) ==
    CASE a.response = <<"1">> -> 1
      [] a.response = <<"2">> -> 2
      [] a.response = <<"3">> -> 3
      [] OTHER -> 0
EntersMember(a, G) == IndexEntered(a) \in 1..Len(G[a.about])

\* the answers k of A that confirm a merge
Confirmations(A) == {k \in 1..Len(A) : A[k].prompt = "proceed" /\ SaidYes(A[k])}

\* C25: auto_merge_similar_correspondents calls merge_correspondent_group for a group
\* only after the user entered the number of a member of that group and then
\* answered 'y', and with that member's id as target; 's' goes to the next group,
\* after 'q' nothing more is asked or merged, any other entry brings the prompt for
\* the same group again; the result is the number of groups whose merge returned
\* True, at most the number of groups found.
C25_AutoMergeOnlyChosenAndConfirmed ==
    call.op = "auto_merge" =>
        LET A == AutoAnswers
            G == AutoGroups
            C == Confirmations(A)
        IN  /\ \A k \in 1..Len(A) :
                /\ A[k].about \in 1..Len(G)
                /\ k = 1 => (A[k].prompt = "target" /\ A[k].about = 1)
                /\ A[k].prompt = "proceed" =>
                    /\ k > 1 /\ A[k - 1].prompt = "target"
                    /\ A[k - 1].about = A[k].about /\ EntersMember(A[k - 1], G)
                    /\ k < Len(A) =>
                        (A[k + 1].prompt = "target" /\ A[k + 1].about = A[k].about + 1)
                /\ A[k].prompt = "target" =>
                    IF EntersQuit(A[k]) THEN k = Len(A)
                    ELSE IF EntersSkip(A[k])
                    THEN k < Len(A) =>
                            (A[k + 1].prompt = "target" /\ A[k + 1].about = A[k].about + 1)
                    ELSE IF EntersMember(A[k], G)
                    THEN k < Len(A) =>
                            (A[k + 1].prompt = "proceed" /\ A[k + 1].about = A[k].about)
                    ELSE k < Len(A) =>
                            (A[k + 1].prompt = "target" /\ A[k + 1].about = A[k].about)
            /\ \A k \in 1..Len(answers) :
                    (answers[k].prompt = "target" /\ EntersQuit(answers[k])) =>
                        (k = Len(answers) /\ \A j \in 1..Len(group_merges) :
                                                group_merges[j].returned)
            /\ Len(group_merges) = Cardinality(C)
            /\ \A k \in C :
                    LET j == Cardinality({x \in C : x <= k})
                        group == G[A[k].about]
                    IN  /\ group_merges[j].group = group
                        /\ group_merges[j].target_id =
                                Some(group[IndexEntered(A[k - 1])].id)
            /\ status = "done" =>
                /\ \A j \in 1..Len(group_merges) : group_merges[j].returned
                /\ result = Cardinality({j \in 1..Len(group_merges) :
                                            group_merges[j].result})
                /\ result <= Len(G)

\* two groups: for the first an entry that is no number, then its second member
\* chosen and confirmed, the merge failing; the second merged into its first
\* member; the call returned 1
C25_Witness ==
    /\ call.op = "auto_merge" /\ status = "done"
    /\ Len(AutoGroups) = 2
    /\ AutoAnswers[1].response = <<"x">> /\ AutoAnswers[2].response = <<"2">>
    /\ Len(group_merges) = 2
    /\ group_merges[1].target_id = Some(AutoGroups[1][2].id)
    /\ ~group_merges[1].result /\ group_merges[2].result
    /\ result = 1

----------------------------------------------------------------------------
(* Termination of the batched reassignment *)

\* the requests that carry document d
RequestsWith(d) ==
    {k \in 1..Len(posts) : \E x \in 1..Len(posts[k].documents) : posts[k].documents[x] = d}

RECURSIVE Halvings(_)
\* the batch sizes b, b // 2, ... down to the first that is 10 or less: how many
Halvings(b) == IF b > 10 THEN 1 + Halvings(b \div 2) ELSE 1

\* every retry has a smaller batch size than the request it retries, which was above
\* 10; a document is in one request per batch size at most
RetriesShrink ==
    Reassigning =>
        /\ \A k \in 1..Len(posts) :
            /\ posts[k].batch_size >= 1
            /\ posts[k].caller # 0 =>
                /\ posts[k].batch_size < posts[posts[k].caller].batch_size
                /\ posts[posts[k].caller].batch_size > 10
                /\ posts[posts[k].caller].outcome = "timeout"
        /\ \A d \in 1..Len(call.document_ids) :
            /\ Cardinality(RequestsWith(d)) <= Halvings(call.batch_size)
            /\ \A j, k \in RequestsWith(d) :
                    j < k => posts[k].batch_size < posts[j].batch_size
            /\ call.batch_size = 50 =>
                /\ Cardinality(RequestsWith(d)) <= 4
                /\ \A k \in RequestsWith(d) : posts[k].batch_size \in {50, 25, 12, 6}
        /\ Len(posts) <= Len(call.document_ids) * Halvings(call.batch_size)
        /\ Len(stack) <= Halvings(call.batch_size) + 1

\* C26: bulk_reassign_documents terminates for every document list, batch size and
\* pattern of request outcomes: a retry has a strictly smaller batch size and none
\* is started at 10 or less, so with batch size 50 a document id is in at most 4
\* requests (of the batch sizes 50, 25, 12, 6).
C26_ReassignTerminates ==
    /\ []RetriesShrink
    /\ Reassigning ~> (status = "done")

\* with batch size 50 every request timed out: document 1 was in four requests, and
\* the call returned False
C26_Witness ==
    /\ call.op = "bulk" /\ call.batch_size = 50 /\ status = "done"
    /\ Cardinality(RequestsWith(1)) = 4
    /\ \A k \in 1..Len(posts) : posts[k].outcome = "timeout"
    /\ ~result

----------------------------------------------------------------------------
(* Deletes of a group merge *)

\* the indexes of the members of the called group other than the target t
SourceMembers(t) == {k \in 1..Len(call.group) : call.group[k].id # t}

\* the members that may be the target of the call: the one named, or without a name
\* one of the largest document count
TargetMembers ==
    IF call.target_id # None
    THEN {k \in 1..Len(call.group) : call.group[k].id = call.target_id[1]}
    ELSE {k \in 1..Len(call.group) :
            \A j \in 1..Len(call.group) :
                DocumentCount(call.group[j]) <= DocumentCount(call.group[k])}

\* C27: during merge_correspondent_group, delete_correspondent is called only when
\* the merge of every non-target member returned True and the user answered 'y' to
\* the delete prompt, and only for ids of non-target members; the target is never
\* deleted, and when a member's merge failed no correspondent is deleted.
C27_GroupDeletesOnlyMergedSources ==
    call.op = "group" =>
        /\ (\E m \in 1..Len(merges) : merges[m].returned /\ ~merges[m].result)
                => deletes = <<>>
        /\ deletes # <<>> =>
            LET t == merges[1].target_id
            IN  /\ \E k \in TargetMembers : call.group[k].id = t
                /\ Len(merges) = Cardinality(SourceMembers(t))
                /\ \A m \in 1..Len(merges) :
                    /\ merges[m].target_id = t
                    /\ merges[m].returned /\ merges[m].result
                    /\ \E k \in SourceMembers(t) : call.group[k].id = merges[m].source_id
                /\ \A k \in SourceMembers(t) :
                    \E m \in 1..Len(merges) : merges[m].source_id = call.group[k].id
                /\ Len(answers) = 1
                /\ answers[1].prompt = "delete_merged"
                /\ answers[1].response \in {"y", "Y"}
                /\ \A d \in 1..Len(deletes) :
                    /\ deletes[d].id # t
                    /\ \E k \in SourceMembers(t) : call.group[k].id = deletes[d].id

\* a group of three with a named target: both sources were merged and, after a 'Y',
\* deleted
C27_Witness ==
    /\ call.op = "group" /\ status = "done" /\ result
    /\ Len(call.group) = 3 /\ call.target_id # None
    /\ Len(deletes) = 2 /\ \A d \in 1..2 : deletes[d].ok
    /\ answers[1].response = "Y"
    /\ \E m \in 1..Len(merges) : merges[m].fetched # <<>>

----------------------------------------------------------------------------
(* Deleted sources own nothing *)

\* document x was part of a request that succeeded and reassigned to t
MovedTo(x, t) ==
    \E k \in 1..Len(posts) :
        /\ posts[k].outcome = "ok"
        /\ posts[k].correspondent = t
        /\ \E i \in 1..Len(posts[k].documents) : posts[k].documents[i] = x

\* C28: merge_correspondent_group never deletes a source correspondent that still
\* owns a document in the service: whatever the outcomes of the fetches and of the
\* batches and whatever the user answers, every document of a deleted source was
\* part of a successful reassignment request to the target.
C28_DeletedSourceOwnsNothing ==
    call.op = "group" =>
        \A d \in 1..Len(deletes) :
            deletes[d].ok =>
                /\ deletes[d].owned = <<>>
                /\ \A x \in DocIds :
                    owner0[x] = deletes[d].id => MovedTo(x, merges[1].target_id)

----------------------------------------------------------------------------
(* The two finders of similar correspondents *)

\* the pairs and the groups the two finders return for the listing and the
\* threshold of the call
PairsOfCall ==
    IF call.op = "find_pairs" THEN result
    ELSE FindSimilarCorrespondentsPairs(call.correspondents, call.threshold)

GroupsOfCall ==
    IF call.op = "find_similar" THEN result
    ELSE FindSimilarCorrespondents(call.correspondents, call.threshold)

\* C29: for the same listing and the same threshold the two finders agree: the two
\* members of every returned pair are in the same returned group, and every member
\* of a returned group is in one returned pair at least.
C29_PairsAndGroupsAgree ==
    (status = "done" /\ call.op \in {"find_pairs", "find_similar"}) =>
        LET pairs == PairsOfCall
            groups == GroupsOfCall
        IN  /\ \A p \in 1..Len(pairs) :
                \E g \in 1..Len(groups) :
                    {pairs[p][1].id, pairs[p][2].id} \subseteq MembersOf(groups[g])
            /\ \A g \in 1..Len(groups) : \A m \in 1..Len(groups[g]) :
                \E p \in 1..Len(pairs) :
                    groups[g][m].id \in {pairs[p][1].id, pairs[p][2].id}

----------------------------------------------------------------------------
(* Exact duplicates are similar *)

\* the thresholds of the model that lie in [0, 1]
ThresholdsInRange == {t \in Thresholds : InRange(t)}

\* every group of `duplicates` lies within one group of `similar`
EachWithinOne(duplicates, similar) ==
    \A d \in 1..Len(duplicates) :
        \E g \in 1..Len(similar) : MembersOf(duplicates[d]) \subseteq MembersOf(similar[g])

\* C30: for the same listing and any threshold in [0, 1], every group that
\* find_exact_duplicates returns is contained in a single group that
\* find_similar_correspondents returns.
C30_ExactDuplicatesAreSimilar ==
    /\ (status = "done" /\ call.op = "find_similar" /\ InRange(call.threshold)) =>
            EachWithinOne(FindExactDuplicates(call.correspondents), result)
    /\ (status = "done" /\ call.op = "find_duplicates") =>
            \A t \in ThresholdsInRange :
                EachWithinOne(result, FindSimilarCorrespondents(call.correspondents, t))

\* at threshold 1 the listing holds duplicates whose names differ in surrounding
\* whitespace, and a name that is no duplicate: the similar groups are returned
C30_Witness ==
    /\ status = "done" /\ call.op = "find_similar" /\ call.threshold = <<1, 1>>
    /\ result # <<>>
    /\ LET duplicates == FindExactDuplicates(call.correspondents)
       IN  /\ duplicates # <<>>
           /\ \E k \in 1..Len(call.correspondents) :
                \A d \in 1..Len(duplicates) : k \notin MembersOf(duplicates[d])
           /\ \E d \in 1..Len(duplicates) : \E i, j \in 1..Len(duplicates[d]) :
                duplicates[d][i].name # duplicates[d][j].name

====
